---- MODULE Spec2Model ----
(***************************************************************************)
(* AiTranscript: the transcription pipeline (YouTube clip, uploaded file,  *)
(* live recording), the process-wide Whisper model cache and the           *)
(* temporary-file discipline, as a state machine.                          *)
(*                                                                         *)
(* Spec        one Streamlit session driving one run at a time.            *)
(* SpecService AudioTranscriptionService called directly, call after call. *)
(* SpecConc  several threads inside AudioTranscriptionService.load_model   *)
(*           at once, stepping through its check / load / insert.          *)
(***************************************************************************)
EXTENDS Integers, Sequences, FiniteSets, TLC

(***************************************************************************)
(* Bounds                                                                  *)
(***************************************************************************)
\* successful whisper.load_model invocations explored (handles are 1..MaxLoads)
MaxLoads == 3
\* runs started from the three source views
MaxRuns == 2
\* load_model calls each thread of SpecConc makes
MaxThreadCalls == 2

(***************************************************************************)
(* Program constants and input domains                                     *)
(***************************************************************************)
\* model handle of an instance whose model is None
NoModel == 0

valid_models == {"tiny", "base", "small", "medium", "large"}

\* model_size arguments tried: two valid tiers and one unrecognised name (the
\* code only asks whether the name is in valid_models)
ModelSizeInputs == {"tiny", "base", "huge"}

DeviceInputs == {"cpu", "cuda"}

\* an exception is its message, outermost prefix first; << >> is "no exception"
NoExc == << >>

Wrap(prefix, e) == <<prefix>> \o e

EmptyCache == [k \in {} |-> NoModel]

(***************************************************************************)
(* AudioTranscriptionService                                               *)
(***************************************************************************)
\* a constructor that keeps whatever model_size it is given
AudioTranscriptionService_as_given(model_size, device) ==
    [model_size |-> model_size, device |-> device, model |-> NoModel]

\* __init__: an unrecognised model_size is replaced by "base"; model is None
AudioTranscriptionService(model_size, device) ==
    [model_size |-> IF model_size \notin valid_models THEN "base" ELSE model_size,
     device     |-> device,
     model      |-> NoModel]

CacheKey(self) == self.model_size \o "_" \o self.device

\* load_model without the cache lookup and the cache insert
load_model_nocache(self, cache, whisper_ok, fresh) ==
    IF whisper_ok
    THEN [self |-> [self EXCEPT !.model = fresh], cache |-> cache,
          ret |-> fresh, exc |-> NoExc, invoked |-> TRUE]
    ELSE [self |-> self, cache |-> cache, ret |-> NoModel,
          exc |-> <<"Failed to load Whisper model", "whisper.load_model">>,
          invoked |-> TRUE]

\* load_model that keeps and caches a handle although the load has failed
load_model_keeping_failed(self, cache, whisper_ok, fresh) ==
    LET cache_key == CacheKey(self)
        stored == [k \in DOMAIN cache \cup {cache_key} |->
                      IF k = cache_key THEN fresh ELSE cache[k]]
    IN
    IF cache_key \in DOMAIN cache
    THEN [self |-> [self EXCEPT !.model = cache[cache_key]], cache |-> cache,
          ret |-> cache[cache_key], exc |-> NoExc, invoked |-> FALSE]
    ELSE IF whisper_ok
    THEN [self |-> [self EXCEPT !.model = fresh], cache |-> stored,
          ret |-> fresh, exc |-> NoExc, invoked |-> TRUE]
    ELSE [self |-> [self EXCEPT !.model = fresh], cache |-> stored, ret |-> NoModel,
          exc |-> <<"Failed to load Whisper model", "whisper.load_model">>,
          invoked |-> TRUE]

\* One call of load_model on instance self with the class-level cache.
\* whisper_ok says whether whisper.load_model succeeds if it is invoked, fresh
\* is the handle it then returns.  The result holds the instance and cache
\* after the call, the returned handle (NoModel when it raised), the raised
\* exception and whether whisper.load_model was invoked.
load_model(self, cache, whisper_ok, fresh) ==
    LET cache_key == CacheKey(self) IN
    IF cache_key \in DOMAIN cache
    THEN [self |-> [self EXCEPT !.model = cache[cache_key]], cache |-> cache,
          ret |-> cache[cache_key], exc |-> NoExc, invoked |-> FALSE]
    ELSE IF whisper_ok
    THEN [self |-> [self EXCEPT !.model = fresh],
          cache |-> [k \in DOMAIN cache \cup {cache_key} |->
                        IF k = cache_key THEN fresh ELSE cache[k]],
          ret |-> fresh, exc |-> NoExc, invoked |-> TRUE]
    ELSE [self |-> self, cache |-> cache, ret |-> NoModel,
          exc |-> <<"Failed to load Whisper model", "whisper.load_model">>,
          invoked |-> TRUE]

(***************************************************************************)
(* src/utils/validators.py                                                 *)
(***************************************************************************)
\* a string is the sequence of its characters
WordChars == {"a", "b", "c", "1", "2", "3", "x", "y", "z", "t", "v", "_", "s", "i"}

\* [\w-]
IsWordOrDash(c) == c \in WordChars \cup {"-"}

StartsWith(s, p) == Len(s) >= Len(p) /\ SubSeq(s, 1, Len(p)) = p

http == <<"h", "t", "t", "p">>
https == http \o <<"s">>
sep == <<":", "/", "/">>
www == <<"w", "w", "w", ".">>
mdot == <<"m", ".">>
youtube_com == <<"y", "o", "u", "t", "u", "b", "e", ".", "c", "o", "m">>
youtu_be == <<"y", "o", "u", "t", "u", ".", "b", "e">>
watch_v == <<"/", "w", "a", "t", "c", "h", "?", "v", "=">>

\* the literal heads of the four patterns of validate_youtube_url, each followed
\* in the pattern by [\w-]+
PatternHeads ==
    LET schemes == {http \o sep, https \o sep} IN
         {p \o h \o youtube_com \o watch_v : p \in schemes, h \in {www, << >>}}
    \cup {p \o youtu_be \o <<"/">> : p \in schemes}
    \cup {p \o mdot \o youtube_com \o watch_v : p \in schemes}

\* re.match(pattern, url) for some pattern: the head, then one [\w-] at least
validate_youtube_url(url) ==
    /\ url # << >>
    /\ \E h \in PatternHeads :
        /\ StartsWith(url, h)
        /\ Len(url) > Len(h)
        /\ IsWordOrDash(url[Len(h) + 1])

\* the longest run of characters outside stop that starts at position i
RECURSIVE RunFrom(_, _, _)
RunFrom(s, i, stop) ==
    IF i > Len(s) \/ s[i] \in stop THEN << >>
    ELSE <<s[i]>> \o RunFrom(s, i + 1, stop)

\* re.search(r"[?&]v=([^&]+)", url): the positions where the pattern matches
VParamAt(url) ==
    {i \in 1..Len(url) :
        /\ i + 3 <= Len(url)
        /\ url[i] \in {"?", "&"}
        /\ url[i + 1] = "v"
        /\ url[i + 2] = "="
        /\ url[i + 3] # "&"}

\* re.search(r"youtu\.be/([^?&]+)", url): the positions where it matches
ShortAt(url) ==
    {i \in 1..Len(url) :
        /\ StartsWith(SubSeq(url, i, Len(url)), youtu_be \o <<"/">>)
        /\ i + 9 <= Len(url)
        /\ url[i + 9] \notin {"?", "&"}}

Min(S) == CHOOSE m \in S : \A n \in S : m <= n

\* None is << >>: a video id is never empty
extract_video_id_from_url(url) ==
    IF ~validate_youtube_url(url) THEN << >>
    ELSE IF VParamAt(url) # {} THEN RunFrom(url, Min(VParamAt(url)) + 3, {"&"})
    ELSE IF ShortAt(url) # {} THEN RunFrom(url, Min(ShortAt(url)) + 9, {"?", "&"})
    ELSE << >>

\* YouTubeService.extract_video_id: the id, or the ValueError it raises
extract_video_id(url) ==
    IF ~validate_youtube_url(url)
    THEN [video_id |-> << >>, exc |-> <<"Invalid YouTube URL">>]
    ELSE IF extract_video_id_from_url(url) = << >>
    THEN [video_id |-> << >>, exc |-> <<"Could not extract video ID from URL">>]
    ELSE [video_id |-> extract_video_id_from_url(url), exc |-> NoExc]

\* supported_formats of validate_audio_file
supported_formats == {".mp3", ".wav", ".m4a", ".ogg", ".flac", ".aac"}

\* 100 * 1024 * 1024
max_size_bytes == 104857600

\* str.lower() on the suffixes tried
Lower(ext) == IF ext = ".MP3" THEN ".mp3" ELSE IF ext = ".WAV" THEN ".wav" ELSE ext

\* a validation that also turns away a file of exactly the maximum size
validate_audio_file_below_max(f) ==
    IF ~f.exists THEN <<FALSE, "File does not exist">>
    ELSE IF ~f.is_file THEN <<FALSE, "Path is not a file">>
    ELSE IF Lower(f.ext) \notin supported_formats THEN <<FALSE, "Unsupported audio format">>
    ELSE IF f.size = 0 THEN <<FALSE, "File is empty">>
    ELSE IF f.size >= max_size_bytes
    THEN <<FALSE, "File size exceeds maximum allowed size (100MB)">>
    ELSE <<TRUE, "">>

\* a path on disk: whether it exists, whether it is a regular file, its suffix
\* and its size in bytes
validate_audio_file(f) ==
    IF ~f.exists THEN <<FALSE, "File does not exist">>
    ELSE IF ~f.is_file THEN <<FALSE, "Path is not a file">>
    ELSE IF Lower(f.ext) \notin supported_formats THEN <<FALSE, "Unsupported audio format">>
    ELSE IF f.size = 0 THEN <<FALSE, "File is empty">>
    ELSE IF f.size > max_size_bytes THEN <<FALSE, "File size exceeds maximum allowed size (100MB)">>
    ELSE <<TRUE, "">>

(***************************************************************************)
(* State                                                                   *)
(***************************************************************************)
VARIABLES
    _model_cache,      \* AudioTranscriptionService._model_cache: cache_key -> handle
    nextHandle,        \* the handle the next successful whisper.load_model returns
    loadLog,           \* history: <<cache_key, handle>> of each successful
                       \* whisper.load_model since the last clear_model_cache
    returned,          \* history: <<cache_key, handle, n>> for the handles returned
                       \* by load_model calls since the last clear_model_cache,
                       \* n = 1 for one such call and 2 for more
    audio_service,     \* the AudioTranscriptionService instance in use
    pc,                \* where the session's single flow of control stands
    src,               \* what started the current call: a source view or a direct call
    run,               \* number of runs started from the views so far
    url,               \* the URL given to the YouTube view, with the id it was built from
    video_id,          \* video_id of get_transcript
    file,              \* the path handed to transcribe_file
    loc,               \* locals temp_file_path (upload), temp_dir and audio_file (YouTube)
    fs,                \* temporary paths of this request that exist on disk
    exc,               \* the exception in flight or delivered, NoExc if none
    result,            \* the dictionary returned by the service call, NoResult if none
    calls,             \* history: external calls made during the current call,
                       \* what the duration probe did, the language option the
                       \* engine ran with, the download_ranges given to yt-dlp
    primary,           \* history: outcome of the work before any cleanup ran
    cleanup,           \* history: deletions attempted and failed during this call
    cacheBefore,       \* history: _model_cache when transcribe_file was entered
    transcript_result, \* st.session_state.transcript_result
    summary_result,    \* st.session_state.summary_result
    key_points,        \* st.session_state.key_points
    refined_message,   \* st.session_state.refined_message
    processing,        \* st.session_state.processing
    settings,          \* the post-processing entries of the settings dictionary
    threads,           \* SpecConc: each thread's position inside load_model
    ai,                \* the AICleanupService instance in use, the calls made to
                       \* its backend and the error process_with_ai rendered
    ret                \* SpecLib: the last library call, its argument and outcome

vars == <<_model_cache, nextHandle, loadLog, returned, audio_service, pc, src, run,
          url, video_id, file, loc, fs, exc, result, calls, primary, cleanup,
          cacheBefore, transcript_result, summary_result, key_points,
          refined_message, processing, settings, threads, ai, ret>>

cacheVars == <<_model_cache, nextHandle, loadLog, returned>>

sessionVars == <<transcript_result, summary_result, key_points, refined_message,
                 processing, settings>>

\* no instance
NoService == [model_size |-> "", device |-> "", model |-> NoModel]

NoFile == [exists |-> FALSE, is_file |-> FALSE, ext |-> "", size |-> 0]

NoUrl == [url |-> << >>, id |-> << >>]

\* hint, start_time, end_time: settings["language"], settings["start_time"],
\* settings["end_time"] ("" and << >> when not given); language: the language
\* argument of transcribe_file
NoLoc == [temp_file_path |-> "", temp_dir |-> "", audio_file |-> "", hint |-> "",
          start_time |-> << >>, end_time |-> << >>, language |-> ""]

\* a text is the sequence of its characters, tagged with the run that produced it
NoText == [run |-> 0, chars |-> << >>]

NoResult == [text |-> NoText, language |-> "", segments |-> << >>, duration |-> 0,
             source |-> ""]

NoCalls == [load_model |-> 0, whisper_load |-> 0, transcribe |-> 0, download |-> 0,
            mkdtemp |-> 0, captions |-> 0, probe |-> "", language |-> "",
            download_ranges |-> << >>]

NoPrimary == [kind |-> "none", stage |-> "", exc |-> NoExc, text |-> NoText]

NoCleanup == [attempted |-> {}, failed |-> {}]

NoSettings == [ai_provider |-> "", api_key |-> "", processing_mode |-> "",
               generate_key_points |-> FALSE]

\* session_state value None of a summary, key points or refined message; an
\* unset transcript is NoText
None == "None"

\* an exception of the text-generation code: its class and its message
NoAiExc == [type |-> "", msg |-> << >>]

AiExc(type, msg) == [type |-> type, msg |-> msg]

\* no AICleanupService instance
NoAiService == [provider |-> "", client |-> FALSE]

\* backend: the requests sent to the text-generation backend by the last call
\* of process_with_ai or of a method of the instance, in order;
\* clients: the OpenAI clients created; error: the exception process_with_ai
\* caught; rendered: the error message it showed; success: the success
\* message it showed
NoAi == [service |-> NoAiService, backend |-> << >>, clients |-> 0,
         error |-> NoAiExc, rendered |-> << >>, success |-> ""]

\* parse_time_string returning None; a number of seconds n is
\* [none |-> FALSE, value |-> n]
NoSeconds == [none |-> TRUE, value |-> 0]

\* the last library call: the function, its arguments, the value returned,
\* the exception raised, and the backend requests and clients it made
\* no result of the legacy get_transcript
NoCaptions == [text |-> << >>, duration |-> 0, segments |-> << >>, source |-> "",
               raised |-> FALSE]

NoRet == [fn |-> "", model_size |-> "", file |-> NoFile, api_key |-> "", provider |-> "",
          text |-> << >>, valid |-> <<FALSE, "">>, exc |-> NoAiExc, sent |-> 0,
          created |-> 0, tone |-> "", context |-> "", request |-> << >>,
          response |-> << >>, points |-> << >>, time_str |-> << >>, seconds |-> NoSeconds,
          transcript_data |-> << >>, captions |-> NoCaptions]

PrimaryError(stage, e) == [kind |-> "error", stage |-> stage, exc |-> e, text |-> NoText]

PrimaryResult(r) == [kind |-> "result", stage |-> "", exc |-> NoExc, text |-> r.text]

(***************************************************************************)
(* Inputs                                                                  *)
(***************************************************************************)
VideoIds == {<<"a", "b", "c", "1", "2", "3">>, <<"x", "-", "y">>}

\* references in the four documented forms, with and without a further
\* query parameter or a fragment (the "#t=" of a link to a moment of a video);
\* id is the video the reference names
WellFormedUrls ==
         {[url |-> https \o sep \o www \o youtube_com \o watch_v \o id, id |-> id] :
             id \in {<<"a", "b", "c", "1", "2", "3">>}}
    \cup {[url |-> http \o sep \o youtube_com \o watch_v \o id
                    \o <<"&", "t", "=", "1">>, id |-> id] : id \in VideoIds}
    \cup {[url |-> https \o sep \o mdot \o youtube_com \o watch_v \o id, id |-> id] :
             id \in {<<"x", "-", "y">>}}
    \cup {[url |-> https \o sep \o youtu_be \o <<"/">> \o id, id |-> id] :
             id \in VideoIds}
    \cup {[url |-> https \o sep \o youtu_be \o <<"/">> \o id
                    \o <<"?", "s", "i", "=", "z">>, id |-> id] :
             id \in {<<"a", "b", "c", "1", "2", "3">>}}
    \cup {[url |-> https \o sep \o www \o youtube_com \o watch_v \o id
                    \o <<"#", "t", "=", "1">>, id |-> id] :
             id \in {<<"a", "b", "c", "1", "2", "3">>}}

\* strings that are no reference: free text, another host, v= not the first
\* parameter, no identifier, another scheme, a reference inside other text
OtherStrings ==
    {[url |-> <<"n", "o", "t", " ", "a", " ", "u", "r", "l">>, id |-> << >>],
     [url |-> https \o sep \o <<"v", "i", "m", "e", "o", ".", "c", "o", "m">>
              \o watch_v \o <<"a", "b", "c">>, id |-> << >>],
     [url |-> https \o sep \o www \o youtube_com
              \o <<"/", "w", "a", "t", "c", "h", "?", "t", "=", "1", "&", "v", "=", "a">>,
      id |-> << >>],
     [url |-> https \o sep \o youtu_be \o <<"/">>, id |-> << >>],
     [url |-> <<"f", "t", "p">> \o sep \o youtu_be \o <<"/", "a", "b", "c">>,
      id |-> << >>],
     [url |-> <<" ">> \o https \o sep \o youtu_be \o <<"/", "a", "b", "c">>,
      id |-> << >>]}

UrlInputs == WellFormedUrls \cup OtherStrings

\* uploaded files: suffix of the name and number of bytes
UploadInputs ==
    {[ext |-> ".mp3", size |-> 1], [ext |-> ".WAV", size |-> max_size_bytes],
     [ext |-> ".mp3", size |-> 0], [ext |-> ".flac", size |-> max_size_bytes + 1],
     [ext |-> ".txt", size |-> 1]}

\* paths handed to transcribe_file by a direct caller
DirectFileInputs ==
    {[exists |-> FALSE, is_file |-> FALSE, ext |-> ".mp3", size |-> 0],
     [exists |-> TRUE, is_file |-> FALSE, ext |-> ".mp3", size |-> 1]}
    \cup {[exists |-> TRUE, is_file |-> TRUE, ext |-> u.ext, size |-> u.size] :
             u \in UploadInputs}

\* sizes of a recording and of a downloaded clip
ByteSizes == {1, max_size_bytes + 1}

\* what the engine returns as text
RawTexts == {<<" ", "h", "i", " ">>, <<" ">>}

RECURSIVE LStrip(_)
LStrip(s) == IF s # << >> /\ Head(s) = " " THEN LStrip(Tail(s)) ELSE s

RECURSIVE RStrip(_)
RStrip(s) == IF s # << >> /\ s[Len(s)] = " " THEN RStrip(SubSeq(s, 1, Len(s) - 1)) ELSE s

\* str.strip()
Strip(s) == RStrip(LStrip(s))

\* segments the engine returns, and what the duration probe reports
SegmentInputs == {<< >>, <<[start |-> 0, end |-> 2], [start |-> 2, end |-> 5]>>}

ProbeOutcomes == {"ok", "raise", "unavailable"}

(***************************************************************************)
(* Init                                                                    *)
(***************************************************************************)
IdleLocals ==
    /\ pc = "idle"
    /\ src = "none"
    /\ url = NoUrl
    /\ video_id = << >>
    /\ file = NoFile
    /\ loc = NoLoc
    /\ fs = {}
    /\ exc = NoExc
    /\ result = NoResult
    /\ calls = NoCalls
    /\ primary = NoPrimary
    /\ cleanup = NoCleanup
    /\ cacheBefore = EmptyCache
    /\ ai = NoAi
    /\ ret = NoRet

\* app.py initialize_session_state, and the class attribute _model_cache = {}
Init ==
    /\ _model_cache = EmptyCache
    /\ nextHandle = 1
    /\ loadLog = << >>
    /\ returned = {}
    /\ audio_service = NoService
    /\ run = 0
    /\ IdleLocals
    /\ transcript_result = NoText
    /\ summary_result = None
    /\ key_points = None
    /\ refined_message = None
    /\ processing = FALSE
    /\ settings = NoSettings
    /\ threads = << >>

\* the locals of a finished call are dropped
ResetLocals ==
    /\ src' = "none"
    /\ url' = NoUrl
    /\ video_id' = << >>
    /\ file' = NoFile
    /\ loc' = NoLoc
    /\ fs' = {}
    /\ exc' = NoExc
    /\ result' = NoResult
    /\ calls' = NoCalls
    /\ primary' = NoPrimary
    /\ cleanup' = NoCleanup
    /\ cacheBefore' = EmptyCache

(***************************************************************************)
(* AudioTranscriptionService called directly                               *)
(***************************************************************************)
\* the history of returned handles after one more call has returned h for key
Returning(log, key, h) ==
    IF \E r \in log : r[1] = key /\ r[2] = h
    THEN (log \ {<<key, h, 1>>}) \cup {<<key, h, 2>>}
    ELSE log \cup {<<key, h, 1>>}

\* the effect of one load_model call r on the cache and its history
ApplyLoad(r, key) ==
    /\ _model_cache' = r.cache
    /\ nextHandle' = IF r.invoked /\ r.ret # NoModel THEN nextHandle + 1 ELSE nextHandle
    /\ loadLog' = IF r.invoked /\ r.ret # NoModel
                  THEN Append(loadLog, <<key, r.ret>>) ELSE loadLog
    /\ returned' = IF r.ret # NoModel THEN Returning(returned, key, r.ret) ELSE returned

\* AudioTranscriptionService(model_size, device)
DirectNew(model_size, device) ==
    /\ pc = "idle"
    /\ audio_service' = AudioTranscriptionService(model_size, device)
    /\ ret' = [NoRet EXCEPT !.fn = "AudioTranscriptionService", !.model_size = model_size]
    /\ UNCHANGED <<cacheVars, pc, src, run, url, video_id, file, loc, fs, exc, result,
                   calls, primary, cleanup, cacheBefore, sessionVars, threads, ai>>

\* audio_service.load_model()
DirectLoad(whisper_ok) ==
    /\ pc = "idle"
    /\ audio_service # NoService
    /\ whisper_ok => nextHandle <= MaxLoads
    /\ LET r == load_model(audio_service, _model_cache, whisper_ok, nextHandle) IN
        /\ ApplyLoad(r, CacheKey(audio_service))
        /\ audio_service' = r.self
    /\ UNCHANGED <<pc, src, run, url, video_id, file, loc, fs, exc, result, calls,
                   primary, cleanup, cacheBefore, sessionVars, threads, ai, ret>>

\* AudioTranscriptionService.clear_model_cache()
ClearModelCache ==
    /\ pc = "idle"
    /\ _model_cache # EmptyCache
    /\ _model_cache' = EmptyCache
    /\ loadLog' = << >>
    /\ returned' = {}
    /\ UNCHANGED <<nextHandle, audio_service, pc, src, run, url, video_id, file, loc,
                   fs, exc, result, calls, primary, cleanup, cacheBefore, sessionVars,
                   threads, ai, ret>>

\* audio_service.transcribe_file(f) called on a path of the caller's
DirectTranscribe(f) ==
    /\ pc = "idle"
    /\ audio_service # NoService
    /\ pc' = "tf_validate"
    /\ src' = "direct"
    /\ file' = f
    /\ UNCHANGED <<cacheVars, audio_service, run, url, video_id, loc, fs, exc, result,
                   calls, primary, cleanup, cacheBefore, sessionVars, threads, ai, ret>>

\* the direct call has returned or raised
DirectDone ==
    /\ pc = "direct_done"
    /\ pc' = "idle"
    /\ ResetLocals
    /\ UNCHANGED <<cacheVars, audio_service, run, sessionVars, threads, ai, ret>>

(***************************************************************************)
(* AudioTranscriptionService.transcribe_file                               *)
(***************************************************************************)
\* where control goes when transcribe_file returns or raises
ReturnPc(s) ==
    CASE s = "youtube" -> "yt_finally"
      [] s = "upload" -> "up_finally"
      [] s = "recording" -> "rec_exit"
      [] OTHER -> "direct_done"

\* the result of the validation is ignored
after_validate_ignored(is_valid) == "tf_load"

\* what follows validate_audio_file: the ValueError, or the rest of the body
after_validate(is_valid) == IF ~is_valid THEN "raise" ELSE "tf_load"

\* lines 124-129: validate the file, raise on an invalid one
TfValidate ==
    /\ pc = "tf_validate"
    /\ cacheBefore' = _model_cache
    /\ LET v == validate_audio_file(file) IN
        IF after_validate(v[1]) = "raise"
        THEN /\ exc' = Wrap("Error transcribing audio file", <<"Invalid audio file", v[2]>>)
             /\ primary' = PrimaryError("validate", exc')
             /\ pc' = ReturnPc(src)
        ELSE /\ pc' = "tf_load"
             /\ UNCHANGED <<exc, primary>>
    /\ UNCHANGED <<cacheVars, audio_service, src, run, url, video_id, file, loc, fs,
                   result, calls, cleanup, sessionVars, threads, ai, ret>>

\* lines 133-135: load the model unless this instance has one
TfLoad(whisper_ok) ==
    /\ pc = "tf_load"
    /\ IF audio_service.model # NoModel
       THEN /\ pc' = "tf_infer"
            /\ UNCHANGED <<cacheVars, audio_service, exc, primary, calls>>
       ELSE /\ whisper_ok => nextHandle <= MaxLoads
            /\ LET r == load_model(audio_service, _model_cache, whisper_ok, nextHandle) IN
                /\ ApplyLoad(r, CacheKey(audio_service))
                /\ audio_service' = r.self
                /\ calls' = [calls EXCEPT !.load_model = @ + 1,
                                          !.whisper_load = @ + (IF r.invoked THEN 1 ELSE 0)]
                /\ IF r.exc # NoExc
                   THEN /\ exc' = Wrap("Error transcribing audio file", r.exc)
                        /\ primary' = PrimaryError("load", exc')
                        /\ pc' = ReturnPc(src)
                   ELSE /\ pc' = "tf_infer"
                        /\ UNCHANGED <<exc, primary>>
    /\ UNCHANGED <<src, run, url, video_id, file, loc, fs, result, cleanup, cacheBefore,
                   sessionVars, threads, ai, ret>>

\* audio_service lines 138-145: the language option model.transcribe runs
\* with, "auto" when the option is not set
transcribe_options_language(language) == IF language # "" THEN language ELSE "auto"

\* a duration that is 0.0 whenever the probe gives nothing
response_duration_zero(probe, probed, segments) ==
    IF probe = "ok" THEN probed ELSE 0

\* lines 148-156: the probed duration (0.0 from a probe that is unavailable),
\* or on a probe failure the end of the last segment, or 0.0
response_duration(probe, probed, segments) ==
    IF probe = "ok" THEN probed
    ELSE IF probe = "unavailable" THEN 0
    ELSE IF segments # << >> THEN segments[Len(segments)].end
    ELSE 0

\* lines 137-169: run the engine, probe the duration, build the response
TfInfer(engine_ok, raw, segments, probe) ==
    /\ pc = "tf_infer"
    /\ calls' = [calls EXCEPT !.transcribe = @ + 1,
                              !.probe = IF engine_ok THEN probe ELSE "",
                              !.language = transcribe_options_language(loc.language)]
    /\ IF engine_ok
       THEN /\ result' = [text |-> [run |-> run, chars |-> Strip(raw)],
                          language |-> "en",
                          segments |-> segments,
                          duration |-> response_duration(probe, 5, segments),
                          source |-> ""]
            /\ primary' = PrimaryResult(result')
            /\ UNCHANGED exc
       ELSE /\ exc' = Wrap("Error transcribing audio file", <<"model.transcribe">>)
            /\ primary' = PrimaryError("transcribe", exc')
            /\ UNCHANGED result
    /\ pc' = ReturnPc(src)
    /\ UNCHANGED <<cacheVars, audio_service, src, run, url, video_id, file, loc, fs,
                   cleanup, cacheBefore, sessionVars, threads, ai, ret>>

(***************************************************************************)
(* src/utils/file_handler.py                                               *)
(***************************************************************************)
\* Path.is_file() of the temporary paths of a request
IsFile(path) == path \in {"file", "ctx", "dir/audio", "dir/part"}

\* a cleanup that deletes nothing
cleanup_temp_files_noop(path, disk, unlink_ok) ==
    [disk |-> disk, attempted |-> {}, failed |-> {}, exc |-> NoExc]

\* cleanup_temp_files(path) on the existing paths disk: unlink the path if it
\* is an existing file; a failing unlink is logged and leaves the file.
\* The result holds the paths left, whether a deletion was attempted and failed,
\* and the exception that leaves the function (never one).
cleanup_temp_files(path, disk, unlink_ok) ==
    IF path \in disk /\ IsFile(path)
    THEN [disk |-> IF unlink_ok THEN disk \ {path} ELSE disk,
          attempted |-> {path},
          failed |-> IF unlink_ok THEN {} ELSE {path},
          exc |-> NoExc]
    ELSE [disk |-> disk, attempted |-> {}, failed |-> {}, exc |-> NoExc]

\* save_uploaded_file: the temporary file is created, then the upload is
\* written into it.  The path returned ("" when it raises), the paths it
\* leaves on disk and the exception raised.
save_uploaded_file(outcome) ==
    CASE outcome = "ok" ->
            [path |-> "file", created |-> {"file"}, exc |-> NoExc]
      [] outcome = "write_fail" ->
            [path |-> "", created |-> {"file"},
             exc |-> <<"Failed to save uploaded file", "write">>]
      [] OTHER ->
            [path |-> "", created |-> {},
             exc |-> <<"Failed to save uploaded file", "NamedTemporaryFile">>]

SaveOutcomes == {"ok", "write_fail", "create_fail"}

(***************************************************************************)
(* src/upload: render_upload_view, process_audio_file,                     *)
(* transcribe_uploaded_file                                                *)
(***************************************************************************)
\* a reset that forgets to clear the stored transcript
ResetResults_keep_transcript ==
    /\ UNCHANGED transcript_result
    /\ summary_result' = None
    /\ key_points' = None
    /\ refined_message' = None

\* the reset of the previous results that every view does before a run
ResetResults ==
    /\ transcript_result' = NoText
    /\ summary_result' = None
    /\ key_points' = None
    /\ refined_message' = None

StartRun(source, first) ==
    /\ pc = "idle"
    /\ ~processing
    /\ run < MaxRuns
    /\ run' = run + 1
    /\ ResetResults
    /\ processing' = TRUE
    /\ src' = source
    /\ pc' = first

(***************************************************************************)
(* src/utils/time_utils.py                                                 *)
(***************************************************************************)
Digits == {"0", "1", "2", "3", "4", "5", "6", "7", "8", "9"}

DigitValue(c) ==
    CASE c = "0" -> 0 [] c = "1" -> 1 [] c = "2" -> 2 [] c = "3" -> 3 [] c = "4" -> 4
      [] c = "5" -> 5 [] c = "6" -> 6 [] c = "7" -> 7 [] c = "8" -> 8 [] c = "9" -> 9

\* str.isdigit()
isdigit(s) == s # << >> /\ \A i \in DOMAIN s : s[i] \in Digits

RECURSIVE DecimalValue(_)
DecimalValue(s) ==
    IF s = << >> THEN 0
    ELSE 10 * DecimalValue(SubSeq(s, 1, Len(s) - 1)) + DigitValue(s[Len(s)])

\* int(s): surrounding whitespace is ignored, one sign is allowed, then digits;
\* anything else raises ValueError (none |-> TRUE)
int(s) ==
    LET t == Strip(s)
        signed == t # << >> /\ Head(t) \in {"+", "-"}
        body == IF signed THEN Tail(t) ELSE t
    IN  IF ~isdigit(body) THEN NoSeconds
        ELSE [none |-> FALSE,
              value |-> IF signed /\ Head(t) = "-" THEN 0 - DecimalValue(body)
                        ELSE DecimalValue(body)]

\* str.split(":")
RECURSIVE Split(_)
Split(s) ==
    LET first == RunFrom(s, 1, {":"}) IN
    IF Len(first) = Len(s) THEN <<s>>
    ELSE <<first>> \o Split(SubSeq(s, Len(first) + 2, Len(s)))

\* parse_time_string(time_str): the seconds, or None
parse_time_string(time_str) ==
    LET t == Strip(time_str)
        parts == Split(t)
        n(i) == int(parts[i])
    IN  IF time_str = << >> THEN NoSeconds
        ELSE IF isdigit(t) THEN [none |-> FALSE, value |-> DecimalValue(t)]
        ELSE IF Len(parts) = 2
        THEN IF n(1).none \/ n(2).none THEN NoSeconds
             ELSE [none |-> FALSE, value |-> n(1).value * 60 + n(2).value]
        ELSE IF Len(parts) = 3
        THEN IF n(1).none \/ n(2).none \/ n(3).none THEN NoSeconds
             ELSE [none |-> FALSE,
                   value |-> n(1).value * 3600 + n(2).value * 60 + n(3).value]
        ELSE NoSeconds

(***************************************************************************)
(* The source views and services                                           *)
(***************************************************************************)
\* language settings tried: none, English, Spanish
LanguageInputs == {"", "en", "es"}

\* start and end offsets tried: none, seconds, minutes and seconds, free text
OffsetInputs == {<< >>, <<"9", "0">>, <<"1", ":", "3", "0">>, <<"a", "b", "c">>}

\* youtube/service.py line 35: the languages list made of the setting
youtube_languages(language) == IF language # "" THEN <<language>> ELSE <<"en">>

\* provider line 276: the first language unless it is "en", else None ("")
whisper_lang(languages) ==
    IF languages # << >> /\ languages[1] # "en" THEN languages[1] ELSE ""

\* provider lines 99-134: the download_ranges option given to yt-dlp, << >>
\* when it is not set (the whole clip); to_duration: end_time is the clip's
\* duration
download_ranges(start_time, end_time) ==
    LET start_seconds == IF start_time # << >> THEN parse_time_string(start_time)
                         ELSE NoSeconds
        end_seconds == IF end_time # << >> THEN parse_time_string(end_time)
                       ELSE NoSeconds
    IN  IF ~start_seconds.none \/ ~end_seconds.none
        THEN <<[start_time |-> IF start_seconds.none THEN 0 ELSE start_seconds.value,
                end_time |-> end_seconds.value, to_duration |-> end_seconds.none]>>
        ELSE << >>

\* view lines 26-36 and 47-48: button pressed with a file uploaded
ClickUpload(language) ==
    /\ StartRun("upload", "up_save")
    /\ loc' = [loc EXCEPT !.hint = language, !.language = language]
    /\ UNCHANGED <<cacheVars, audio_service, url, video_id, file, fs, exc, result,
                   calls, primary, cleanup, cacheBefore, settings, threads, ai, ret>>

\* service lines 25-34: save the upload, construct the service
UpSave(u, outcome, model_size) ==
    /\ pc = "up_save"
    /\ LET s == save_uploaded_file(outcome) IN
        /\ fs' = fs \cup s.created
        /\ loc' = [loc EXCEPT !.temp_file_path = s.path]
        /\ IF s.exc # NoExc
           THEN /\ exc' = s.exc
                /\ primary' = PrimaryError("save", s.exc)
                /\ pc' = "up_finally"
                /\ UNCHANGED <<audio_service, file>>
           ELSE /\ audio_service' = AudioTranscriptionService(model_size, "cpu")
                /\ file' = [exists |-> TRUE, is_file |-> TRUE, ext |-> u.ext,
                            size |-> u.size]
                /\ pc' = "tf_validate"
                /\ UNCHANGED <<exc, primary>>
    /\ UNCHANGED <<cacheVars, src, run, url, video_id, result, calls, cleanup,
                   cacheBefore, sessionVars, threads, ai, ret>>

\* service lines 42-50: the exception is re-raised as it is; the finally block
\* deletes the file if temp_file_path is set, an exception of the deletion is
\* logged.  The outcome delivered and the effect on the disk.
upload_finally(temp_file_path, disk, unlink_ok, pending) ==
    IF temp_file_path # ""
    THEN LET c == cleanup_temp_files(temp_file_path, disk, unlink_ok) IN
         [disk |-> c.disk, attempted |-> c.attempted, failed |-> c.failed,
          exc |-> pending]
    ELSE [disk |-> disk, attempted |-> {}, failed |-> {}, exc |-> pending]

\* what the view does next with the outcome of the service call
ViewPc(e) == IF e = NoExc THEN "view_store" ELSE "view_except"

UpFinally(unlink_ok) ==
    /\ pc = "up_finally"
    /\ LET f == upload_finally(loc.temp_file_path, fs, unlink_ok, exc) IN
        /\ fs' = f.disk
        /\ cleanup' = [attempted |-> cleanup.attempted \cup f.attempted,
                       failed |-> cleanup.failed \cup f.failed]
        /\ exc' = f.exc
        /\ pc' = ViewPc(f.exc)
    /\ UNCHANGED <<cacheVars, audio_service, src, run, url, video_id, file, loc, result,
                   calls, primary, cacheBefore, sessionVars, threads, ai, ret>>

(***************************************************************************)
(* src/recording: render_recording_view, process_audio_recording,          *)
(* transcribe_recording, AudioTranscriptionService.transcribe_audio_data   *)
(***************************************************************************)
\* view lines 26-35 and 46-47: button pressed with a recording present
ClickRecording(language) ==
    /\ StartRun("recording", "rec_enter")
    /\ loc' = [loc EXCEPT !.hint = language, !.language = language]
    /\ UNCHANGED <<cacheVars, audio_service, url, video_id, file, fs, exc, result,
                   calls, primary, cleanup, cacheBefore, settings, threads, ai, ret>>

\* entering temp_file_context(audio_bytes, filename): the bytes are written to
\* a fresh temporary file, or an I/O error is raised and no file is left
temp_file_context_enter(write_ok) ==
    IF write_ok THEN [path |-> "ctx", created |-> {"ctx"}, exc |-> NoExc]
    ELSE [path |-> "", created |-> {}, exc |-> <<"I/O error">>]

\* leaving temp_file_context: the file is deleted on every exit; a failing
\* deletion is logged and never raised
temp_file_context_exit(path, disk, unlink_ok, pending) ==
    LET c == cleanup_temp_files(path, disk, unlink_ok) IN
    [disk |-> c.disk, attempted |-> c.attempted, failed |-> c.failed, exc |-> pending]

\* service line 23 and transcribe_audio_data lines 193-199
RecEnter(size, write_ok, model_size) ==
    /\ pc = "rec_enter"
    /\ audio_service' = AudioTranscriptionService(model_size, "cpu")
    /\ LET t == temp_file_context_enter(write_ok) IN
        /\ fs' = fs \cup t.created
        /\ IF t.exc # NoExc
           THEN /\ exc' = Wrap("Error transcribing audio data", t.exc)
                /\ primary' = PrimaryError("materialize", exc')
                /\ pc' = "view_except"
                /\ UNCHANGED file
           ELSE /\ file' = [exists |-> TRUE, is_file |-> TRUE, ext |-> ".wav",
                            size |-> size]
                /\ pc' = "tf_validate"
                /\ UNCHANGED <<exc, primary>>
    /\ UNCHANGED <<cacheVars, src, run, url, video_id, loc, result, calls, cleanup,
                   cacheBefore, sessionVars, threads, ai, ret>>

\* transcribe_audio_data lines 199-207: the with block is left, an exception
\* is wrapped; transcribe_recording re-raises it as it is
RecExit(unlink_ok) ==
    /\ pc = "rec_exit"
    /\ LET t == temp_file_context_exit("ctx", fs, unlink_ok, exc) IN
        /\ fs' = t.disk
        /\ cleanup' = [attempted |-> cleanup.attempted \cup t.attempted,
                       failed |-> cleanup.failed \cup t.failed]
        /\ exc' = IF t.exc # NoExc THEN Wrap("Error transcribing audio data", t.exc)
                  ELSE NoExc
        /\ pc' = ViewPc(t.exc)
    /\ UNCHANGED <<cacheVars, audio_service, src, run, url, video_id, file, loc, result,
                   calls, primary, cacheBefore, sessionVars, threads, ai, ret>>

(***************************************************************************)
(* src/youtube: render_youtube_view, process_youtube_url,                  *)
(* get_youtube_transcript, YouTubeService                                  *)
(***************************************************************************)
\* view lines 76-90 and 101-104, service lines 25-46, provider lines 332-335
\* and 262-281: the button is pressed with a URL entered; the services are
\* constructed and the video id is extracted, a ValueError going to the view
ClickYoutube(u, model_size, language, start_time, end_time) ==
    /\ StartRun("youtube", IF extract_video_id(u.url).exc # NoExc
                           THEN "view_except" ELSE "yt_mkdtemp")
    /\ url' = u
    /\ loc' = [loc EXCEPT !.hint = language, !.start_time = start_time,
                          !.end_time = end_time,
                          !.language = whisper_lang(youtube_languages(language))]
    /\ audio_service' = AudioTranscriptionService(model_size, "cpu")
    /\ LET e == extract_video_id(u.url) IN
        /\ video_id' = e.video_id
        /\ exc' = e.exc
        /\ primary' = IF e.exc # NoExc THEN PrimaryError("reference", e.exc) ELSE primary
    /\ UNCHANGED <<cacheVars, file, fs, result, calls, cleanup, cacheBefore,
                   settings, threads, ai, ret>>

\* provider line 188: tempfile.mkdtemp
YtMkdtemp(ok) ==
    /\ pc = "yt_mkdtemp"
    /\ calls' = [calls EXCEPT !.mkdtemp = @ + 1]
    /\ IF ok
       THEN /\ loc' = [loc EXCEPT !.temp_dir = "dir"]
            /\ fs' = fs \cup {"dir"}
            /\ pc' = "yt_download"
            /\ UNCHANGED <<exc, primary>>
       ELSE /\ exc' = <<"mkdtemp">>
            /\ primary' = PrimaryError("mkdtemp", exc')
            /\ pc' = "yt_finally"
            /\ UNCHANGED <<loc, fs>>
    /\ UNCHANGED <<cacheVars, audio_service, src, run, url, video_id, file, result,
                   cleanup, cacheBefore, sessionVars, threads, ai, ret>>

\* _download_youtube_audio: what yt-dlp leaves in the directory and what the
\* function returns or raises
DownloadOutcomes == {"ok", "fail_clean", "fail_partial", "not_found"}

\* a download that lets the error of yt-dlp through as it is
_download_youtube_audio_bare(outcome) ==
    CASE outcome = "ok" ->
            [audio_file |-> "dir/audio", created |-> {"dir/audio"}, exc |-> NoExc]
      [] outcome = "fail_clean" ->
            [audio_file |-> "", created |-> {}, exc |-> <<"yt_dlp">>]
      [] outcome = "fail_partial" ->
            [audio_file |-> "", created |-> {"dir/part"}, exc |-> <<"yt_dlp">>]
      [] OTHER ->
            [audio_file |-> "", created |-> {"dir/part"},
             exc |-> <<"Downloaded audio file not found">>]

_download_youtube_audio(outcome) ==
    CASE outcome = "ok" ->
            [audio_file |-> "dir/audio", created |-> {"dir/audio"}, exc |-> NoExc]
      [] outcome = "fail_clean" ->
            [audio_file |-> "", created |-> {},
             exc |-> <<"Failed to download YouTube audio", "yt_dlp">>]
      [] outcome = "fail_partial" ->
            [audio_file |-> "", created |-> {"dir/part"},
             exc |-> <<"Failed to download YouTube audio", "yt_dlp">>]
      [] OTHER ->
            [audio_file |-> "", created |-> {"dir/part"},
             exc |-> <<"Failed to download YouTube audio",
                       "Downloaded audio file not found">>]

\* a failed download is tried again
after_download_retry(e) == IF e = NoExc THEN "tf_validate" ELSE "yt_download"

\* provider lines 190-211: after the download, transcribe_file on success and
\* the except and finally blocks on failure
after_download(e) == IF e = NoExc THEN "tf_validate" ELSE "yt_finally"

\* provider lines 191-193
YtDownload(outcome, size) ==
    /\ pc = "yt_download"
    /\ calls' = [calls EXCEPT !.download = @ + 1,
                              !.download_ranges = download_ranges(loc.start_time,
                                                                  loc.end_time)]
    /\ LET d == _download_youtube_audio(outcome) IN
        /\ fs' = fs \cup d.created
        /\ loc' = [loc EXCEPT !.audio_file = d.audio_file]
        /\ pc' = after_download(d.exc)
        /\ IF d.exc # NoExc
           THEN /\ exc' = d.exc
                /\ primary' = PrimaryError("download", d.exc)
                /\ UNCHANGED file
           ELSE /\ file' = [exists |-> TRUE, is_file |-> TRUE, ext |-> ".mp3",
                            size |-> size]
                /\ UNCHANGED <<exc, primary>>
    /\ UNCHANGED <<cacheVars, audio_service, src, run, url, video_id, result, cleanup,
                   cacheBefore, sessionVars, threads, ai, ret>>

\* shutil.rmtree(temp_dir): the directory and everything in it
InDir(path) == path \in {"dir", "dir/audio", "dir/part"}

\* a finally block that lets the failure of rmtree replace the outcome
whisper_finally_raising(l, disk, unlink_ok, rmtree_ok, pending) ==
    LET c == IF l.audio_file # "" /\ l.audio_file \in disk
             THEN cleanup_temp_files(l.audio_file, disk, unlink_ok)
             ELSE [disk |-> disk, attempted |-> {}, failed |-> {}, exc |-> NoExc]
        rm == l.temp_dir # "" /\ l.temp_dir \in c.disk
    IN  [disk |-> IF rm /\ rmtree_ok THEN {p \in c.disk : ~InDir(p)} ELSE c.disk,
         attempted |-> c.attempted \cup (IF rm THEN {l.temp_dir} ELSE {}),
         failed |-> c.failed \cup (IF rm /\ ~rmtree_ok THEN {l.temp_dir} ELSE {}),
         exc |-> IF rm /\ ~rmtree_ok THEN <<"rmtree">> ELSE pending]

\* a finally block that does not remove the directory
whisper_finally_norm(l, disk, unlink_ok, rmtree_ok, pending) ==
    LET c == IF l.audio_file # "" /\ l.audio_file \in disk
             THEN cleanup_temp_files(l.audio_file, disk, unlink_ok)
             ELSE [disk |-> disk, attempted |-> {}, failed |-> {}, exc |-> NoExc]
    IN  [disk |-> c.disk, attempted |-> c.attempted, failed |-> c.failed,
         exc |-> pending]

\* provider lines 213-227, the finally block: the audio file is deleted if it
\* exists, then the directory tree; an exception of either is logged
whisper_finally(l, disk, unlink_ok, rmtree_ok, pending) ==
    LET c == IF l.audio_file # "" /\ l.audio_file \in disk
             THEN cleanup_temp_files(l.audio_file, disk, unlink_ok)
             ELSE [disk |-> disk, attempted |-> {}, failed |-> {}, exc |-> NoExc]
        rm == l.temp_dir # "" /\ l.temp_dir \in c.disk
    IN  [disk |-> IF rm /\ rmtree_ok THEN {p \in c.disk : ~InDir(p)} ELSE c.disk,
         attempted |-> c.attempted \cup (IF rm THEN {l.temp_dir} ELSE {}),
         failed |-> c.failed \cup (IF rm /\ ~rmtree_ok THEN {l.temp_dir} ELSE {}),
         exc |-> pending]

\* provider lines 198-227 and 283-291: the result is tagged or the exception
\* is wrapped by _transcribe_with_whisper, the finally block runs, and
\* get_transcript tags the result again or wraps the exception again
YtFinally(unlink_ok, rmtree_ok) ==
    /\ pc = "yt_finally"
    /\ LET pending == IF exc # NoExc THEN Wrap("Whisper fallback failed for video", exc)
                      ELSE NoExc
           f == whisper_finally(loc, fs, unlink_ok, rmtree_ok, pending)
       IN
        /\ fs' = f.disk
        /\ cleanup' = [attempted |-> cleanup.attempted \cup f.attempted,
                       failed |-> cleanup.failed \cup f.failed]
        /\ exc' = IF f.exc # NoExc THEN Wrap("Error processing video", f.exc) ELSE NoExc
        /\ result' = IF f.exc = NoExc THEN [result EXCEPT !.source = "whisper_audio"]
                     ELSE NoResult
        /\ pc' = ViewPc(f.exc)
    /\ UNCHANGED <<cacheVars, audio_service, src, run, url, video_id, file, loc, calls,
                   primary, cacheBefore, sessionVars, threads, ai, ret>>

(***************************************************************************)
(* src/services/ai_service.py: AICleanupService                            *)
(***************************************************************************)
\* "not x" of an api_key: None and the empty string
Falsy(x) == x \in {None, ""}

\* provider arguments tried and str.lower() on them
ProviderInputs == {"local", "openai", "OpenAI", "azure"}

ProviderLower(p) == IF p = "OpenAI" THEN "openai" ELSE p

ApiKeyInputs == {None, "", "sk"}

\* what the backend does with one request: it answers, or the client library
\* raises RateLimitError, another APIError, another OpenAIError, or the code
\* around it raises something else (AttributeError on an answer without
\* content, ConnectionError of the local server)
BackendOutcomes ==
    {"ok", "RateLimitError", "APIError", "OpenAIError", "AttributeError",
     "ConnectionError"}

\* what the backend does with the first and with the second request of a run
\* started from a view
FirstOutcomes == {"ok", "RateLimitError", "APIError"}

KeyPointOutcomes == {"ok", "RateLimitError"}

\* a constructor that builds the client without looking at the key
AICleanupService_anykey(api_key, provider, ollama_ok) ==
    IF ProviderLower(provider) = "openai"
    THEN [self |-> [provider |-> "openai", client |-> TRUE], exc |-> NoAiExc,
          created |-> 1]
    ELSE [self |-> [provider |-> "local", client |-> FALSE], exc |-> NoAiExc,
          created |-> 0]

\* __init__(api_key, model, provider): the instance, the exception raised and
\* the number of OpenAI clients created.  ollama_ok is OLLAMA_AVAILABLE.
AICleanupService(api_key, provider, ollama_ok) ==
    LET p == ProviderLower(provider)
        raise(type, msg) == [self |-> NoAiService, exc |-> AiExc(type, <<msg>>),
                             created |-> 0]
    IN
    IF p = "local"
    THEN IF ~ollama_ok THEN raise("ImportError", "Ollama is not installed")
         ELSE [self |-> [provider |-> "local", client |-> FALSE], exc |-> NoAiExc,
               created |-> 0]
    ELSE IF p = "openai"
    THEN IF Falsy(api_key)
         THEN raise("ValueError", "OpenAI API key is required for OpenAI provider")
         ELSE [self |-> [provider |-> "openai", client |-> TRUE], exc |-> NoAiExc,
               created |-> 1]
    ELSE raise("ValueError", "Unsupported provider")

\* _call_openai_api with the three except clauses in the order of the code
\* (RateLimitError is an APIError, APIError is an OpenAIError); any other
\* exception leaves it as it is
_call_openai_api(b) ==
    CASE b = "ok" -> [val |-> "response", exc |-> NoAiExc]
      [] b = "RateLimitError" ->
            [val |-> None,
             exc |-> AiExc("Exception", <<"OpenAI API rate limit exceeded">>)]
      [] b = "APIError" ->
            [val |-> None, exc |-> AiExc("Exception", <<"OpenAI API error", b>>)]
      [] b = "OpenAIError" ->
            [val |-> None, exc |-> AiExc("Exception", <<"OpenAI service error", b>>)]
      [] OTHER -> [val |-> None, exc |-> AiExc(b, <<b>>)]

\* _call_local_llm: every exception becomes an Exception, one that mentions a
\* connection gets the hint that Ollama is not running
_call_local_llm(b) ==
    CASE b = "ok" -> [val |-> "response", exc |-> NoAiExc]
      [] b = "ConnectionError" ->
            [val |-> None, exc |-> AiExc("Exception", <<"Cannot connect to Ollama", b>>)]
      [] OTHER -> [val |-> None, exc |-> AiExc("Exception", <<"Local LLM error", b>>)]

\* _call_api: dispatch on the provider; whatever is raised is raised again as
\* Exception("Error calling <provider> AI: <message>")
_call_api(self, b) ==
    LET r == IF self.provider = "local" THEN _call_local_llm(b)
             ELSE _call_openai_api(b)
    IN  IF r.exc = NoAiExc THEN r
        ELSE [val |-> None,
              exc |-> AiExc("Exception",
                            <<"Error calling " \o self.provider \o " AI">> \o r.exc.msg)]

\* a text operation that sends the request without looking at the text
text_operation_unchecked(self, name, text, b) ==
    LET r == _call_api(self, b) IN
    [val |-> IF r.exc = NoAiExc THEN name ELSE None, exc |-> r.exc, sent |-> << <<name, b>> >>]

\* the common shape of summarize_text, generate_key_points and refine_message:
\* "if not text or not text.strip(): raise ValueError", then one _call_api.
\* sent: the requests that reached the backend, each with what the backend
\* did with it.  The answer is named after the operation.
text_operation(self, name, text, b) ==
    IF Strip(text) = << >>
    THEN [val |-> None,
          exc |-> AiExc("ValueError", <<"Text to " \o name \o " cannot be empty">>),
          sent |-> << >>]
    ELSE LET r == _call_api(self, b) IN
         [val |-> IF r.exc = NoAiExc THEN name ELSE None, exc |-> r.exc,
          sent |-> << <<name, b>> >>]

summarize_text(self, text, b) == text_operation(self, "summarize", text, b)

generate_key_points(self, text, b) == text_operation(self, "analyze", text, b)

refine_message(self, text, b) == text_operation(self, "refine", text, b)

\* tone and recipient_context arguments tried; "None" is None
ToneInputs == {"professional", "friendly", "formal", "casual", "Professional", "angry",
               "None"}

ContextInputs == {"None", "", "my boss"}

tone_instructions ==
    [professional |-> "professional, clear, and concise while maintaining warmth",
     friendly |-> "friendly, approachable, and warm while staying clear",
     formal |-> "formal, respectful, and polished",
     casual |-> "casual, relaxed, and conversational"]

\* a description that falls back to the tone's own name
tone_desc_literal(tone) ==
    IF tone \in DOMAIN tone_instructions THEN tone_instructions[tone] ELSE tone

\* tone_instructions.get(tone, tone_instructions['professional'])
tone_desc(tone) ==
    IF tone \in DOMAIN tone_instructions THEN tone_instructions[tone]
    ELSE tone_instructions["professional"]

\* refine_message lines 358-387: what is handed to _call_api, as the parts the
\* arguments decide: the system prompt (fixed but for the tone description),
\* the user message (the text, then the context sentence if there is a
\* context), max_tokens and the temperature in tenths
refine_request(text, tone, recipient_context) ==
    <<[system_prompt |-> <<"rephrase it to be", tone_desc(tone)>>,
       user_message |-> <<"Please refine and rephrase the following message", text>>
                        \o (IF recipient_context \notin {"None", ""}
                            THEN <<"Context: This message is for", recipient_context>>
                            ELSE << >>),
       max_tokens |-> 2000,
       temperature |-> 7]>>

\* characters str.lstrip('0123456789.-) ') removes
EnumerationChars == {"0", "1", "2", "3", "4", "5", "6", "7", "8", "9", ".", "-", ")", " "}

RECURSIVE LStripChars(_, _)
LStripChars(s, chars) ==
    IF s # << >> /\ Head(s) \in chars THEN LStripChars(Tail(s), chars) ELSE s

\* generate_key_points lines 314-324 on response.split('\n'): the lines that
\* are not blank and do not start with '#', each stripped of whitespace and of
\* leading enumeration characters, then those longer than 10 characters
parse_key_points(lines) ==
    LET kept(line) == Strip(line) # << >> /\ Head(Strip(line)) # "#"
        wanted == SelectSeq(lines, kept)
        points == [i \in DOMAIN wanted |->
                      Strip(LStripChars(Strip(wanted[i]), EnumerationChars))]
        long(point) == Len(point) > 10
    IN  SelectSeq(points, long)

(***************************************************************************)
(* The views after the service call, and src/common/ai_processing.py       *)
(***************************************************************************)
SettingsInputs ==
    [ai_provider : {"local", "openai"}, api_key : {"", "sk"},
     processing_mode : {"summarize", "refine"}, generate_key_points : BOOLEAN]

\* views that post-process whatever the settings are
ai_wanted_always(st) == TRUE

\* view lines 66-70: post-processing runs with the local provider or with a key
ai_wanted(st) == st.ai_provider = "local" \/ st.api_key # ""

\* view line 57 (upload), 54 (recording), 107 (YouTube) and the test that
\* follows the with block: the text is stored, post-processing is chosen
ViewStore(st) ==
    /\ pc = "view_store"
    /\ transcript_result' = result.text
    /\ settings' = st
    /\ pc' = IF ai_wanted(st) THEN "view_ai" ELSE "view_finally"
    /\ UNCHANGED <<cacheVars, audio_service, src, run, url, video_id, file, loc, fs, exc,
                   result, calls, primary, cleanup, cacheBefore, summary_result,
                   key_points, refined_message, processing, threads, ai, ret>>

\* an except block that also drops the stored transcript
ai_except_clearing(session, e) ==
    [session |-> [session EXCEPT !.transcript_result = NoText], error |-> e,
     rendered |-> <<"AI processing failed">> \o e.msg, success |-> ""]

\* lines 65-74, "except Exception as e": the session values stay as they are
\* and "AI processing failed: <str(e)>" is rendered with fixed suggestions
ai_except(session, e) ==
    [session |-> session, error |-> e,
     rendered |-> <<"AI processing failed">> \o e.msg, success |-> ""]

\* the try block left without an exception, after st.success(message)
ai_success(session, message) ==
    [session |-> session, error |-> NoAiExc, rendered |-> << >>, success |-> message]

\* a post-processing that asks for the key points whatever summarize did
process_with_ai_eager(transcript, st, cur, ollama_ok, first, second) ==
    LET c == AICleanupService(st.api_key, st.ai_provider, ollama_ok)
        out(end, sent) ==
            [session |-> end.session, service |-> c.self, clients |-> c.created,
             backend |-> sent, error |-> end.error, rendered |-> end.rendered,
             success |-> end.success]
    IN
    IF c.exc # NoAiExc THEN out(ai_except(cur, c.exc), << >>)
    ELSE IF st.processing_mode = "summarize"
    THEN LET s == summarize_text(c.self, transcript.chars, first)
             k == generate_key_points(c.self, transcript.chars, second)
             cur1 == IF s.exc = NoAiExc THEN [cur EXCEPT !.summary_result = s.val]
                     ELSE cur
         IN
         IF ~st.generate_key_points
         THEN IF s.exc # NoAiExc THEN out(ai_except(cur, s.exc), s.sent)
              ELSE out(ai_success(cur1, "AI summarization complete!"), s.sent)
         ELSE IF k.exc # NoAiExc THEN out(ai_except(cur1, k.exc), s.sent \o k.sent)
         ELSE IF s.exc # NoAiExc
         THEN out(ai_except([cur1 EXCEPT !.key_points = k.val], s.exc), s.sent \o k.sent)
         ELSE out(ai_success([cur1 EXCEPT !.key_points = k.val],
                             "AI summarization complete!"), s.sent \o k.sent)
    ELSE LET r == refine_message(c.self, transcript.chars, first) IN
         IF r.exc # NoAiExc THEN out(ai_except(cur, r.exc), r.sent)
         ELSE out(ai_success([cur EXCEPT !.refined_message = r.val],
                             "Message refined successfully!"), r.sent)

\* process_with_ai(transcript, settings) on the session values cur: the backend
\* is constructed, then summarize (and key points) or refine is called; every
\* exception is caught and rendered as "AI processing failed: <message>".
\* ollama_ok: the ollama package is importable; first: what the backend does
\* with the summarize or refine request; second: with the key-points request.
\* The result: the session values after the call, the instance, the clients
\* created, the requests sent, the exception caught and the messages shown.
process_with_ai(transcript, st, cur, ollama_ok, first, second) ==
    LET c == AICleanupService(st.api_key, st.ai_provider, ollama_ok)
        out(end, sent) ==
            [session |-> end.session, service |-> c.self, clients |-> c.created,
             backend |-> sent, error |-> end.error, rendered |-> end.rendered,
             success |-> end.success]
    IN
    IF c.exc # NoAiExc THEN out(ai_except(cur, c.exc), << >>)
    ELSE IF st.processing_mode = "summarize"
    THEN LET s == summarize_text(c.self, transcript.chars, first) IN
         IF s.exc # NoAiExc THEN out(ai_except(cur, s.exc), s.sent)
         ELSE LET cur1 == [cur EXCEPT !.summary_result = s.val] IN
              IF ~st.generate_key_points
              THEN out(ai_success(cur1, "AI summarization complete!"), s.sent)
              ELSE LET k == generate_key_points(c.self, transcript.chars, second) IN
                   IF k.exc # NoAiExc THEN out(ai_except(cur1, k.exc), s.sent \o k.sent)
                   ELSE out(ai_success([cur1 EXCEPT !.key_points = k.val],
                                       "AI summarization complete!"), s.sent \o k.sent)
    ELSE LET r == refine_message(c.self, transcript.chars, first) IN
         IF r.exc # NoAiExc THEN out(ai_except(cur, r.exc), r.sent)
         ELSE out(ai_success([cur EXCEPT !.refined_message = r.val],
                             "Message refined successfully!"), r.sent)

\* view line 68: process_with_ai(st.session_state.transcript_result, settings)
ViewAI(ollama_ok, first, second) ==
    /\ pc = "view_ai"
    /\ LET a == process_with_ai(transcript_result, settings,
                                [transcript_result |-> transcript_result,
                                 summary_result |-> summary_result,
                                 key_points |-> key_points,
                                 refined_message |-> refined_message],
                                ollama_ok, first, second)
       IN
        /\ transcript_result' = a.session.transcript_result
        /\ summary_result' = a.session.summary_result
        /\ key_points' = a.session.key_points
        /\ refined_message' = a.session.refined_message
        /\ ai' = [service |-> a.service, backend |-> a.backend, clients |-> a.clients,
                  error |-> a.error, rendered |-> a.rendered, success |-> a.success]
    /\ pc' = "view_finally"
    /\ UNCHANGED <<cacheVars, audio_service, src, run, url, video_id, file, loc, fs, exc,
                   result, calls, primary, cleanup, cacheBefore, processing, settings,
                   threads, ret>>

\* an exit whose flag is cleared only when no exception was handled
EndRun_flag_left_on_error ==
    /\ pc \in {"view_except", "view_finally"}
    /\ processing' = (pc = "view_except")
    /\ settings' = NoSettings
    /\ audio_service' = NoService
    /\ pc' = "idle"
    /\ ResetLocals
    /\ ai' = NoAi
    /\ UNCHANGED <<cacheVars, run, transcript_result, summary_result, key_points,
                   refined_message, threads, ret>>

\* the except block (the error is rendered) and the finally block of
\* process_youtube_url, process_audio_file and process_audio_recording
EndRun ==
    /\ pc \in {"view_except", "view_finally"}
    /\ processing' = FALSE
    /\ settings' = NoSettings
    /\ audio_service' = NoService
    /\ pc' = "idle"
    /\ ResetLocals
    /\ ai' = NoAi
    /\ UNCHANGED <<cacheVars, run, transcript_result, summary_result, key_points,
                   refined_message, threads, ret>>

(***************************************************************************)
(* Spec: one session, one run at a time, as the application drives it.     *)
(* The duration probe answers or raises here; SpecService also has the     *)
(* probe that is not installed.                                            *)
(***************************************************************************)
Next ==
    \/ ClickUpload("")
    \/ \E u \in UploadInputs, o \in SaveOutcomes, m \in ModelSizeInputs : UpSave(u, o, m)
    \/ \E ok \in BOOLEAN : UpFinally(ok)
    \/ ClickRecording("")
    \/ \E n \in ByteSizes, ok \in BOOLEAN, m \in ModelSizeInputs : RecEnter(n, ok, m)
    \/ \E ok \in BOOLEAN : RecExit(ok)
    \/ \E u \in UrlInputs, m \in ModelSizeInputs : ClickYoutube(u, m, "", << >>, << >>)
    \/ \E ok \in BOOLEAN : YtMkdtemp(ok)
    \/ \E o \in DownloadOutcomes, n \in ByteSizes : YtDownload(o, n)
    \/ \E u \in BOOLEAN, r \in BOOLEAN : YtFinally(u, r)
    \/ TfValidate
    \/ \E ok \in BOOLEAN : TfLoad(ok)
    \/ \E ok \in BOOLEAN, raw \in RawTexts, sg \in SegmentInputs, p \in {"ok", "raise"} :
          TfInfer(ok, raw, sg, p)
    \/ \E st \in SettingsInputs : ViewStore(st)
    \/ \E o \in BOOLEAN, first \in FirstOutcomes, second \in KeyPointOutcomes :
          ViewAI(o, first, second)
    \/ EndRun

Spec == Init /\ [][Next]_vars

(***************************************************************************)
(* SpecService: AudioTranscriptionService used as a library, one call at a *)
(* time: instances are constructed, load_model and transcribe_file are     *)
(* called on them, the cache is cleared                                    *)
(***************************************************************************)
NextService ==
    \/ \E m \in ModelSizeInputs, d \in DeviceInputs : DirectNew(m, d)
    \/ \E ok \in BOOLEAN : DirectLoad(ok)
    \/ ClearModelCache
    \/ \E f \in DirectFileInputs : DirectTranscribe(f)
    \/ DirectDone
    \/ TfValidate
    \/ \E ok \in BOOLEAN : TfLoad(ok)
    \/ \E ok \in BOOLEAN, raw \in RawTexts, sg \in SegmentInputs, p \in ProbeOutcomes :
          TfInfer(ok, raw, sg, p)

SpecService == Init /\ [][NextService]_vars

(***************************************************************************)
(* SpecConc: threads of one process (Streamlit runs each session's script  *)
(* in a thread of its own) inside load_model at the same time.  The cache  *)
(* is a plain class attribute and load_model takes no lock, so the threads *)
(* interleave between its statements.                                      *)
(***************************************************************************)
NumThreads == 2

Threads == 1..NumThreads

IdleThread == [pc |-> "start", self |-> NoService, ret |-> NoModel, exc |-> NoExc,
               ncalls |-> 0]

InitConc ==
    /\ _model_cache = EmptyCache
    /\ nextHandle = 1
    /\ loadLog = << >>
    /\ returned = {}
    /\ audio_service = NoService
    /\ run = 0
    /\ IdleLocals
    /\ transcript_result = NoText
    /\ summary_result = None
    /\ key_points = None
    /\ refined_message = None
    /\ processing = FALSE
    /\ settings = NoSettings
    /\ threads = [t \in Threads |-> IdleThread]

seqVars == <<audio_service, pc, src, run, url, video_id, file, loc, fs, exc, result,
             calls, primary, cleanup, cacheBefore, sessionVars, ai, ret>>

\* the thread constructs an instance and calls load_model on it
TBegin(t, model_size, device) ==
    /\ threads[t].pc = "start"
    /\ threads[t].ncalls < MaxThreadCalls
    /\ threads' = [threads EXCEPT ![t] =
                      [pc |-> "check",
                       self |-> AudioTranscriptionService(model_size, device),
                       ret |-> NoModel, exc |-> NoExc, ncalls |-> @.ncalls + 1]]
    /\ UNCHANGED <<cacheVars, seqVars>>

\* lines 81-82: cache_key in self._model_cache
TCheck(t) ==
    /\ threads[t].pc = "check"
    /\ threads' = [threads EXCEPT ![t].pc =
                      IF CacheKey(threads[t].self) \in DOMAIN _model_cache
                      THEN "hit" ELSE "load"]
    /\ UNCHANGED <<cacheVars, seqVars>>

\* lines 83-85: the cached handle is taken and returned
THit(t) ==
    /\ threads[t].pc = "hit"
    /\ LET h == _model_cache[CacheKey(threads[t].self)] IN
        /\ threads' = [threads EXCEPT ![t].pc = "done", ![t].self.model = h, ![t].ret = h]
        /\ returned' = Returning(returned, CacheKey(threads[t].self), h)
    /\ UNCHANGED <<_model_cache, nextHandle, loadLog, seqVars>>

\* line 90: self.model = whisper.load_model(...), which returns or raises
TLoad(t, whisper_ok) ==
    /\ threads[t].pc = "load"
    /\ whisper_ok => nextHandle <= MaxLoads
    /\ IF whisper_ok
       THEN /\ threads' = [threads EXCEPT ![t].pc = "insert", ![t].self.model = nextHandle]
            /\ nextHandle' = nextHandle + 1
            /\ loadLog' = Append(loadLog, <<CacheKey(threads[t].self), nextHandle>>)
       ELSE /\ threads' = [threads EXCEPT ![t].pc = "done",
                              ![t].exc = <<"Failed to load Whisper model",
                                           "whisper.load_model">>]
            /\ UNCHANGED <<nextHandle, loadLog>>
    /\ UNCHANGED <<_model_cache, returned, seqVars>>

\* lines 93-96: the handle is stored in the cache and returned
TInsert(t) ==
    /\ threads[t].pc = "insert"
    /\ LET key == CacheKey(threads[t].self)
           h == threads[t].self.model
       IN
        /\ _model_cache' = [k \in DOMAIN _model_cache \cup {key} |->
                               IF k = key THEN h ELSE _model_cache[k]]
        /\ threads' = [threads EXCEPT ![t].pc = "done", ![t].ret = h]
        /\ returned' = Returning(returned, key, h)
    /\ UNCHANGED <<nextHandle, loadLog, seqVars>>

\* the caller goes on to its next call
TReturn(t) ==
    /\ threads[t].pc = "done"
    /\ threads' = [threads EXCEPT ![t].pc = "start"]
    /\ UNCHANGED <<cacheVars, seqVars>>

NextConc ==
    \/ \E t \in Threads, m \in ModelSizeInputs, d \in DeviceInputs : TBegin(t, m, d)
    \/ \E t \in Threads : TCheck(t)
    \/ \E t \in Threads : THit(t)
    \/ \E t \in Threads, ok \in BOOLEAN : TLoad(t, ok)
    \/ \E t \in Threads : TInsert(t)
    \/ \E t \in Threads : TReturn(t)

SpecConc == InitConc /\ [][NextConc]_vars

(***************************************************************************)
(* SpecHints: runs from the three views with a language setting and, for a *)
(* remote clip, a time window; no post-processing, no failing deletion     *)
(***************************************************************************)
\* the URLs are references to one video; the settings are those with which
\* the views skip post-processing
NextHints ==
    \/ \E l \in LanguageInputs : ClickUpload(l)
    \/ \E u \in UploadInputs, o \in SaveOutcomes : UpSave(u, o, "base")
    \/ UpFinally(TRUE)
    \/ \E l \in LanguageInputs : ClickRecording(l)
    \/ \E n \in ByteSizes : RecEnter(n, TRUE, "base")
    \/ RecExit(TRUE)
    \/ \E u \in {w \in WellFormedUrls : w.id = <<"x", "-", "y">>}, l \in LanguageInputs,
          s \in OffsetInputs, e \in OffsetInputs :
          ClickYoutube(u, "base", l, s, e)
    \/ YtMkdtemp(TRUE)
    \/ \E o \in DownloadOutcomes, n \in ByteSizes : YtDownload(o, n)
    \/ YtFinally(TRUE, TRUE)
    \/ TfValidate
    \/ \E ok \in BOOLEAN : TfLoad(ok)
    \/ \E ok \in BOOLEAN, raw \in RawTexts, sg \in SegmentInputs : TfInfer(ok, raw, sg, "ok")
    \/ \E st \in {t \in SettingsInputs : ~ai_wanted(t) /\ t.processing_mode = "summarize"
                                              /\ ~t.generate_key_points} :
          ViewStore(st)
    \/ EndRun

SpecHints == Init /\ [][NextHints]_vars

(***************************************************************************)
(* SpecLib: validate_audio_file and AICleanupService used as a library,    *)
(* one call at a time                                                      *)
(***************************************************************************)
\* suffixes tried: the six supported ones, upper-case spellings, others, none
ExtInputs == supported_formats \cup {".MP3", ".WAV", ".txt", ""}

\* sizes tried: empty, one byte, around the limit
SizeInputs == {0, 1, max_size_bytes - 1, max_size_bytes, max_size_bytes + 1}

\* paths tried: missing paths, directories and regular files
LibFileInputs ==
         {[exists |-> FALSE, is_file |-> FALSE, ext |-> e, size |-> 0] : e \in ExtInputs}
    \cup {[exists |-> TRUE, is_file |-> FALSE, ext |-> e, size |-> 0] : e \in ExtInputs}
    \cup {[exists |-> TRUE, is_file |-> TRUE, ext |-> e, size |-> n] :
             e \in ExtInputs, n \in SizeInputs}

\* texts tried: empty, blank, and texts with something in them
TextInputs == {<< >>, <<" ">>, <<" ", " ">>, <<"h", "i">>}

OperationInputs == {"summarize", "analyze", "refine"}

\* is_valid, error_msg = validate_audio_file(f)
LibValidate(f) ==
    /\ ret' = [NoRet EXCEPT !.fn = "validate_audio_file", !.file = f,
                            !.valid = validate_audio_file(f)]
    /\ UNCHANGED <<cacheVars, audio_service, pc, src, run, url, video_id, file, loc, fs,
                   exc, result, calls, primary, cleanup, cacheBefore, sessionVars,
                   threads, ai>>

\* AICleanupService(api_key=api_key, provider=provider)
LibNew(api_key, provider, ollama_ok) ==
    /\ LET c == AICleanupService(api_key, provider, ollama_ok) IN
        /\ ai' = [NoAi EXCEPT !.service = c.self, !.clients = c.created]
        /\ ret' = [NoRet EXCEPT !.fn = "AICleanupService", !.api_key = api_key,
                                !.provider = provider, !.exc = c.exc,
                                !.created = c.created]
    /\ UNCHANGED <<cacheVars, audio_service, pc, src, run, url, video_id, file, loc, fs,
                   exc, result, calls, primary, cleanup, cacheBefore, sessionVars,
                   threads>>

\* service.summarize_text(text), service.generate_key_points(text) or
\* service.refine_message(text), with what the backend does if it is asked
LibCall(name, text, b) ==
    /\ ai.service # NoAiService
    /\ LET r == text_operation(ai.service, name, text, b) IN
        /\ ai' = [ai EXCEPT !.backend = r.sent]
        /\ ret' = [NoRet EXCEPT !.fn = name, !.text = text, !.exc = r.exc,
                                !.sent = Len(r.sent)]
    /\ UNCHANGED <<cacheVars, audio_service, pc, src, run, url, video_id, file, loc, fs,
                   exc, result, calls, primary, cleanup, cacheBefore, sessionVars,
                   threads>>

(***************************************************************************)
(* src/services/youtube_service.py: the legacy YouTubeService.get_transcript*)
(***************************************************************************)
\* sep.join(parts) with every part followed by the separator
join_trailing(separator, parts) ==
    LET F[i \in 0..Len(parts)] == IF i = 0 THEN << >> ELSE F[i - 1] \o parts[i] \o separator
    IN F[Len(parts)]

\* sep.join(parts)
join(separator, parts) ==
    LET F[i \in 0..Len(parts)] ==
            IF i = 0 THEN << >>
            ELSE IF i = 1 THEN parts[1]
            ELSE F[i - 1] \o separator \o parts[i]
    IN F[Len(parts)]

\* entry.get('duration', 0)
get_duration(entry) == IF entry.duration.none THEN 0 ELSE entry.duration.value

\* lines 264-286: the result made of the fetched captions
captions_result(transcript_data) ==
    [text |-> join(<<" ">>, [i \in 1..Len(transcript_data) |-> transcript_data[i].text]),
     duration |-> IF transcript_data # << >>
                  THEN LET last_segment == transcript_data[Len(transcript_data)]
                       IN last_segment.start + get_duration(last_segment)
                  ELSE 0,
     segments |-> transcript_data,
     source |-> "youtube_api",
     raised |-> FALSE]

\* what _transcribe_with_whisper returns to the legacy get_transcript
whisper_fallback_result ==
    [text |-> <<"w">>, duration |-> 0, segments |-> << >>, source |-> "whisper_fallback",
     raised |-> FALSE]

\* get_transcript(video_id, languages, use_fallback): api is what the captions
\* API does (a transcript is found, none is found, or the video has
\* transcripts disabled), fallback_ok what the engine path does when tried
legacy_get_transcript(api, transcript_data, use_fallback, audio_service_set, fallback_ok) ==
    IF api = "found" THEN captions_result(transcript_data)
    ELSE IF use_fallback /\ audio_service_set
         THEN IF fallback_ok THEN whisper_fallback_result
              ELSE [NoCaptions EXCEPT !.raised = TRUE]
         ELSE [NoCaptions EXCEPT !.raised = TRUE]

\* entries the captions API returns: text, start and duration of a caption
CaptionEntries ==
    {[text |-> <<"a">>, start |-> 0, duration |-> [none |-> FALSE, value |-> 2]],
     [text |-> <<"b", " ">>, start |-> 3, duration |-> [none |-> FALSE, value |-> 4]],
     [text |-> << >>, start |-> 7, duration |-> [none |-> FALSE, value |-> 0]],
     [text |-> <<"c", "d">>, start |-> 9, duration |-> [none |-> TRUE, value |-> 0]]}

\* captions of none, one, two and three entries (of three: those that end
\* with the entry that has no duration)
CaptionInputs ==
    {<< >>} \cup {<<a>> : a \in CaptionEntries}
            \cup {<<a, b>> : a \in CaptionEntries, b \in CaptionEntries}
            \cup {<<a, b, c>> : a \in CaptionEntries, b \in CaptionEntries,
                                c \in {e \in CaptionEntries : e.duration.none}}

\* YouTubeService(audio_service).get_transcript(video_id, languages, use_fallback)
LibGetTranscript(api, transcript_data, use_fallback, audio_service_set, fallback_ok) ==
    /\ ret' = [NoRet EXCEPT !.fn = "get_transcript",
                            !.transcript_data = transcript_data,
                            !.captions = legacy_get_transcript(api, transcript_data,
                                             use_fallback, audio_service_set, fallback_ok)]
    /\ UNCHANGED <<cacheVars, audio_service, pc, src, run, url, video_id, file, loc, fs,
                   exc, result, calls, primary, cleanup, cacheBefore, sessionVars,
                   threads, ai>>

\* lines of a backend answer: a sentence of 11 characters, one of 10, the
\* first one numbered, a short line, an empty and a blank line, a heading, a
\* numbered line whose text starts with '#', a sentence that starts with a year
LineInputs ==
    {<<"E", "l", "e", "v", "e", "n", " ", "c", "h", "a", "r">>,
     <<"T", "e", "n", " ", "c", "h", "a", "r", "s", ".">>,
     <<" ", "1", ".", " ", "E", "l", "e", "v", "e", "n", " ", "c", "h", "a", "r", " ">>,
     <<"-", " ", "s", "h", "o", "r", "t">>,
     << >>,
     <<" ", " ">>,
     <<"#", " ", "K", "e", "y", " ", "p", "o", "i", "n", "t", "s">>,
     <<"1", ".", " ", "#", "h", "a", "s", "h", "t", "a", "g", " ", "w", "i", "n", "s">>,
     <<"2", "0", "2", "4", " ", "w", "a", "s", " ", "a", " ", "g", "o", "o", "d", " ",
       "y", "e", "a", "r">>}

\* answers of one and of two lines
ResponseInputs ==
    {<<a>> : a \in LineInputs} \cup {<<a, b>> : a \in LineInputs, b \in LineInputs}

\* time strings tried: the documented forms, free text, the empty string,
\* missing and surplus parts, a part that is no number, signed numbers
TimeInputs ==
    {<<"9", "0">>, <<"1", ":", "3", "0">>, <<"1", ":", "0", "1", ":", "3", "0">>,
     <<"a", "b", "c">>, << >>, <<" ", "9", "0", " ">>, <<"1", ":">>, <<":", "3", "0">>,
     <<"1", ":", "2", ":", "3", ":", "4">>, <<"1", ":", "x">>, <<"-", "5">>,
     <<"-", "1", ":", "3", "0">>, <<"1", ":", "+", "3", "0">>, <<"0">>,
     <<"0", ":", "0", "0">>, <<"2", ":", "0", ":", "5">>}

\* parse_time_string(time_str)
LibParseTime(time_str) ==
    /\ ret' = [NoRet EXCEPT !.fn = "parse_time_string", !.time_str = time_str,
                            !.seconds = parse_time_string(time_str)]
    /\ UNCHANGED <<cacheVars, audio_service, pc, src, run, url, video_id, file, loc, fs,
                   exc, result, calls, primary, cleanup, cacheBefore, sessionVars,
                   threads, ai>>

\* what refine_message(text, tone, recipient_context) hands to _call_api
LibRefineRequest(text, tone, recipient_context) ==
    /\ ai.service # NoAiService
    /\ Strip(text) # << >>
    /\ ret' = [NoRet EXCEPT !.fn = "refine_request", !.text = text, !.tone = tone,
                            !.context = recipient_context,
                            !.request = refine_request(text, tone, recipient_context)]
    /\ UNCHANGED <<cacheVars, audio_service, pc, src, run, url, video_id, file, loc, fs,
                   exc, result, calls, primary, cleanup, cacheBefore, sessionVars,
                   threads, ai>>

\* the list generate_key_points makes of the backend's answer
LibKeyPoints(response) ==
    /\ ai.service # NoAiService
    /\ ret' = [NoRet EXCEPT !.fn = "parse_key_points", !.response = response,
                            !.points = parse_key_points(response)]
    /\ UNCHANGED <<cacheVars, audio_service, pc, src, run, url, video_id, file, loc, fs,
                   exc, result, calls, primary, cleanup, cacheBefore, sessionVars,
                   threads, ai>>

NextLib ==
    \/ \E d \in CaptionInputs : LibGetTranscript("found", d, TRUE, TRUE, TRUE)
    \/ \E a \in {"not_found", "disabled"}, u \in BOOLEAN, s \in BOOLEAN,
          f \in BOOLEAN : LibGetTranscript(a, << >>, u, s, f)
    \/ \E t \in TextInputs, tn \in ToneInputs, c \in ContextInputs :
          LibRefineRequest(t, tn, c)
    \/ \E r \in ResponseInputs : LibKeyPoints(r)
    \/ \E t \in TimeInputs : LibParseTime(t)
    \/ \E f \in LibFileInputs : LibValidate(f)
    \/ \E k \in ApiKeyInputs, p \in ProviderInputs, o \in BOOLEAN : LibNew(k, p, o)
    \/ \E n \in OperationInputs, t \in TextInputs, b \in BackendOutcomes : LibCall(n, t, b)

SpecLib == Init /\ [][NextLib]_vars

(***************************************************************************)
(* Properties                                                              *)
(***************************************************************************)
\* the cache keys of the instances tried
CacheKeys ==
    {CacheKey(AudioTranscriptionService(m, d)) : m \in ModelSizeInputs, d \in DeviceInputs}

\* successful whisper.load_model invocations for a key since the last clear
LoadsOf(key) == Cardinality({i \in DOMAIN loadLog : loadLog[i][1] = key})

\* C1: load_model calls for the same (tier, device) made one after the other,
\* on one instance or on several, with no clear_model_cache in between, all
\* return the same handle, and whisper.load_model has loaded that model
\* exactly once.
C1_LoadOncePerKey ==
    \A key \in CacheKeys :
        /\ \A r1, r2 \in returned : r1[1] = key /\ r2[1] = key => r1[2] = r2[2]
        /\ (\E r \in returned : r[1] = key) => LoadsOf(key) = 1

\* two load_model calls for the key of a non-default device have returned
\* since the last clear, which came after an earlier load
C1_Witness ==
    /\ pc = "idle"
    /\ audio_service.device = "cuda"
    /\ <<CacheKey(audio_service), audio_service.model, 2>> \in returned
    /\ audio_service.model > 1

\* C2: threads calling load_model concurrently for one key load the model at
\* most once, and every caller that has returned holds the handle the cache
\* stores for the key.
C2_ConcurrentLoadOnce ==
    /\ \A key \in CacheKeys : LoadsOf(key) <= 1
    /\ \A t \in DOMAIN threads :
          threads[t].pc = "done" /\ threads[t].exc = NoExc
             => /\ CacheKey(threads[t].self) \in DOMAIN _model_cache
                /\ threads[t].ret = _model_cache[CacheKey(threads[t].self)]

\* the service call of the run has returned or raised to the view
CallEnded == pc \in {"view_store", "view_except"}

IsSuffix(a, b) == Len(a) <= Len(b) /\ SubSeq(b, Len(b) - Len(a) + 1, Len(b)) = a

\* C3 as claimed: on the upload path and on the bytes path, once the bytes are
\* in a temporary file, the file does not exist when the call has ended,
\* whether transcription returned or raised.
C3_TempFileGone ==
    CallEnded /\ src \in {"upload", "recording"} /\ file # NoFile
        => "file" \notin fs /\ "ctx" \notin fs

\* C3 as amended: when the call has ended, the deletion of the temporary file
\* has been attempted, and the file exists only if that deletion failed.
C3_TempFileGoneUnlessUnlinkFails ==
    CallEnded /\ src \in {"upload", "recording"} /\ file # NoFile
        => /\ cleanup.attempted = (IF src = "upload" THEN {"file"} ELSE {"ctx"})
           /\ fs = cleanup.failed

\* the upload path has ended with the engine's error and the file is gone
C3_Witness ==
    /\ pc = "view_except"
    /\ src = "upload"
    /\ primary.stage = "transcribe"
    /\ cleanup.attempted = {"file"}
    /\ fs = {}

\* C4 as claimed: once _transcribe_with_whisper has returned or raised, the
\* temporary directory it created and every file in it are gone.
C4_TempDirGone ==
    CallEnded /\ src = "youtube" /\ loc.temp_dir # "" => fs = {}

\* C4 as amended: once _transcribe_with_whisper has returned or raised, the
\* removal of the directory tree has been attempted, and the directory or a
\* file in it exists only if that removal failed.
C4_TempDirGoneUnlessRmtreeFails ==
    CallEnded /\ src = "youtube" /\ loc.temp_dir # ""
        => /\ "dir" \in cleanup.attempted
           /\ fs # {} => "dir" \in cleanup.failed

\* the download failed leaving a partial file, and the directory is gone
C4_Witness ==
    /\ pc = "view_except"
    /\ src = "youtube"
    /\ primary.stage = "download"
    /\ primary.exc[2] = "Downloaded audio file not found"
    /\ "dir" \in cleanup.attempted
    /\ fs = {}

\* C5: when transcribe_uploaded_file has ended, no temporary file of the
\* request exists, on every exit path, the failed write included.  (Stated
\* for the calls in which no deletion failed.)
C5_NoTempFileOnAnyExit ==
    CallEnded /\ src = "upload" /\ cleanup.failed = {} => "file" \notin fs

\* C6: when the deletion of the temporary file (upload path) or of the audio
\* file or directory (remote-clip path) has failed, the caller still receives
\* what the transcription produced: its result, or its error (wrapped by the
\* enclosing handlers, never replaced by the failure of the deletion).
C6_CleanupNeverMasksOutcome ==
    CallEnded /\ src \in {"upload", "youtube"} /\ cleanup.failed # {}
        => /\ primary.kind = "result" =>
                /\ pc = "view_store"
                /\ exc = NoExc
                /\ result.text = primary.text
           /\ primary.kind = "error" =>
                /\ pc = "view_except"
                /\ exc # NoExc
                /\ IsSuffix(primary.exc, exc)

\* the transcription of a clip succeeded, removing the directory failed, and
\* the result is with the view
C6_Witness ==
    /\ pc = "view_store"
    /\ src = "youtube"
    /\ "dir" \in cleanup.failed
    /\ primary.kind = "result"

\* C7: one request makes at most one download attempt and one engine call and
\* never asks a captions API; after a failed download or a failed engine call
\* nothing more is attempted and the request ends with the error.
C7_NoRetryNoFallback ==
    src = "youtube"
        => /\ calls.download <= 1
           /\ calls.transcribe <= 1
           /\ calls.captions = 0
           /\ primary.stage = "download" =>
                /\ calls.download = 1
                /\ calls.transcribe = 0
                /\ pc \in {"yt_finally", "view_except"}
           /\ primary.stage = "transcribe" =>
                /\ calls.transcribe = 1
                /\ pc \in {"yt_finally", "view_except"}
           /\ primary.kind = "error" /\ pc \notin {"yt_finally", "view_except"} => FALSE
           /\ pc = "view_except" => exc # NoExc

\* the download succeeded, the engine failed, and the request ended in error
C7_Witness ==
    /\ src = "youtube"
    /\ pc = "view_except"
    /\ primary.stage = "transcribe"
    /\ calls.download = 1
    /\ calls.transcribe = 1

\* C8: the stored transcript is unset or the whole text of the current run's
\* result: it is set only after the engine returned, it is unset when the run
\* failed, and it is never the text of an earlier run.
C8_TranscriptOfThisRun ==
    /\ transcript_result # NoText => transcript_result.run = run
    /\ pc # "idle" /\ transcript_result # NoText
          => /\ pc \in {"view_ai", "view_finally"}
             /\ primary.kind = "result"
             /\ transcript_result = result.text
             /\ transcript_result = primary.text
    /\ pc = "view_except" => transcript_result = NoText
    /\ pc \in {"view_ai", "view_finally"} => transcript_result = result.text

\* a second run has stored its own text
C8_Witness ==
    /\ run = 2
    /\ pc = "view_finally"
    /\ transcript_result.run = 2
    /\ transcript_result.chars = <<"h", "i">>

\* the file fails validation: missing, unsupported extension, empty, oversized
FailsValidation(f) ==
    \/ ~f.exists
    \/ Lower(f.ext) \notin {".mp3", ".wav", ".m4a", ".ogg", ".flac", ".aac"}
    \/ f.size = 0
    \/ f.size > 100 * 1024 * 1024

\* C9: once transcribe_file has validated a file that fails validation, it
\* has raised, load_model and the engine have not been called, and the model
\* cache is what it was when transcribe_file was entered.
C9_InvalidFileBeforeModel ==
    pc \notin {"idle", "tf_validate"} /\ file # NoFile /\ FailsValidation(file)
        => /\ exc # NoExc
           /\ primary.stage = "validate"
           /\ calls.load_model = 0
           /\ calls.transcribe = 0
           /\ _model_cache = cacheBefore

\* transcribe_file on a missing file has raised on an instance without a model
\* while the cache holds another model
C9_Witness ==
    /\ pc = "direct_done"
    /\ file # NoFile
    /\ ~file.exists
    /\ exc # NoExc
    /\ audio_service.model = NoModel
    /\ _model_cache # EmptyCache
    /\ CacheKey(audio_service) \notin DOMAIN _model_cache

\* a request for a string that is no reference has been rejected at
\* extract_video_id: no temporary directory, no download, no model load
RejectedBeforeWork ==
    src = "youtube" /\ url.id = << >>
        => /\ pc = "view_except"
           /\ exc = <<"Invalid YouTube URL">>
           /\ video_id = << >>
           /\ calls = NoCalls
           /\ fs = {}
           /\ loc = NoLoc

\* C10: for a recognised reference extract_video_id returns the identifier of
\* the video it names; for any other string it raises the invalid-URL error,
\* and the request ends there: no temporary directory, no download, no model
\* load.
C10_ReferenceResolved ==
    /\ src = "youtube" /\ url.id # << >>
          => video_id = url.id /\ primary.stage # "reference"
    /\ RejectedBeforeWork

\* C11: validate_audio_file accepts exactly the existing regular files whose
\* extension (compared without regard to case) is one of mp3, wav, m4a, ogg,
\* flac, aac and whose size is above 0 and at most 100 MB, 100 MB included;
\* for a regular file it rejects, the reason names a constraint the file
\* violates: the format, the empty file, or the maximum size.
C11_ValidateAudioFile ==
    ret.fn = "validate_audio_file" =>
        LET f == ret.file
            extension_ok ==
                Lower(f.ext) \in {".mp3", ".wav", ".m4a", ".ogg", ".flac", ".aac"}
            too_large == f.size > 100 * 1024 * 1024
            accepted == ret.valid[1]
            reason == ret.valid[2]
        IN
        /\ accepted <=> f.exists /\ f.is_file /\ extension_ok /\ f.size > 0 /\ ~too_large
        /\ accepted => reason = ""
        /\ ~accepted /\ f.exists /\ f.is_file =>
              \/ reason = "Unsupported audio format" /\ ~extension_ok
              \/ reason = "File is empty" /\ f.size = 0
              \/ reason = "File size exceeds maximum allowed size (100MB)" /\ too_large

\* a flac file of exactly 100 MB has been accepted
C11_Witness ==
    /\ ret.fn = "validate_audio_file"
    /\ ret.file.ext = ".flac"
    /\ ret.file.size = 100 * 1024 * 1024
    /\ ret.valid[1]

\* C12: when the duration probe of transcribe_file has raised, transcribe_file
\* has not failed: it has returned a result whose duration is the end time of
\* the last segment, or 0 if the engine produced no segment.
C12_ProbeFailureFallsBack ==
    calls.probe = "raise" =>
        /\ primary.kind = "result"
        /\ result # NoResult
        /\ pc = "direct_done" => exc = NoExc
        /\ result.duration = IF result.segments = << >> THEN 0
                              ELSE result.segments[Len(result.segments)].end

\* the probe raised on a file with segments and the call returned their end
C12_Witness ==
    /\ pc = "direct_done"
    /\ calls.probe = "raise"
    /\ result.segments # << >>
    /\ result.duration = 5
    /\ exc = NoExc

\* C13: every result of transcribe_file with at least one segment has a
\* duration that is at least the end time of its last segment, also when the
\* probe is unavailable and reports 0.0 without raising.
C13_DurationCoversSegments ==
    result # NoResult /\ result.segments # << >>
        => result.duration >= result.segments[Len(result.segments)].end

\* C14: an instance constructed with a tier outside tiny, base, small, medium,
\* large has tier base, and every load_model made on it afterwards uses the
\* cache key of tier base: the model it gets is the one cached under that key,
\* and no other key enters the cache.
C14_InvalidTierIsBase ==
    [][ ret.fn = "AudioTranscriptionService"
        /\ ret.model_size \notin {"tiny", "base", "small", "medium", "large"}
        /\ ret' = ret
        => LET base_key == "base" \o "_" \o audio_service'.device IN
           /\ audio_service.model_size = "base"
           /\ audio_service'.model_size = "base"
           /\ DOMAIN _model_cache' \ DOMAIN _model_cache \subseteq {base_key}
           /\ audio_service'.model \notin {audio_service.model, NoModel}
                 => /\ base_key \in DOMAIN _model_cache'
                    /\ _model_cache'[base_key] = audio_service'.model ]_vars

\* an instance constructed with tier "huge" holds the model cached for base
C14_Witness ==
    /\ ret.fn = "AudioTranscriptionService"
    /\ ret.model_size = "huge"
    /\ audio_service.device = "cuda"
    /\ audio_service.model # NoModel
    /\ "base_cuda" \in DOMAIN _model_cache
    /\ _model_cache["base_cuda"] = audio_service.model

\* a text with nothing in it but blanks
IsBlank(text) == \A i \in DOMAIN text : text[i] = " "

\* C15: summarize_text and refine_message called with an empty or
\* whitespace-only text raise ValueError and send no request to the
\* text-generation backend.
C15_EmptyTextRejected ==
    ret.fn \in {"summarize", "refine"} /\ IsBlank(ret.text)
        => /\ ret.exc.type = "ValueError"
           /\ ret.sent = 0

\* refine_message on a text of two blanks has raised ValueError on an openai
\* instance and has sent nothing
C15_Witness ==
    /\ ret.fn = "refine"
    /\ ret.text = <<" ", " ">>
    /\ ret.exc.type = "ValueError"
    /\ ai.service.provider = "openai"
    /\ ai.backend = << >>

\* C16: constructing AICleanupService for provider openai with a missing or
\* empty api_key raises ValueError; no client is created, no instance exists
\* and nothing has been sent to the backend.
C16_OpenAiNeedsKey ==
    ret.fn = "AICleanupService" /\ ret.provider \in {"openai", "OpenAI"}
    /\ ret.api_key \in {None, ""}
        => /\ ret.exc.type = "ValueError"
           /\ ret.created = 0
           /\ ai.clients = 0
           /\ ai.service = NoAiService
           /\ ai.backend = << >>

\* the constructor has raised for provider openai and api_key None
C16_Witness ==
    /\ ret.fn = "AICleanupService"
    /\ ret.provider = "openai"
    /\ ret.api_key = None
    /\ ret.exc = AiExc("ValueError", <<"OpenAI API key is required for OpenAI provider">>)

\* the errors of the OpenAI client library that _call_openai_api handles
ClientErrors == {"RateLimitError", "APIError", "OpenAIError"}

\* C17: on an openai instance, a rate-limit error, an API error and a generic
\* service error of the backend reach the caller of summarize_text,
\* refine_message and generate_key_points as exceptions of different kinds:
\* the kind received for one of them is not the kind the same call raises for
\* another of them.
C17_DistinctErrorKinds ==
    /\ ret.fn \in {"summarize", "analyze", "refine"}
    /\ ai.service.provider = "openai"
    /\ ret.sent = 1
    /\ ai.backend[1][2] \in ClientErrors
    => \A other \in ClientErrors \ {ai.backend[1][2]} :
          ret.exc.type # text_operation(ai.service, ret.fn, ret.text, other).exc.type

\* the session values process_with_ai starts from in a run: the transcript
\* stored, no summary, no key points, no refined message
SessionAtStart ==
    [transcript_result |-> transcript_result, summary_result |-> None,
     key_points |-> None, refined_message |-> None]

\* when summarize has succeeded and the key-points call has failed, the
\* summary is stored, no key points are, and only an error message is shown
SummaryKeptOnKeyPointFailure ==
    /\ pc = "view_finally"
    /\ Len(ai.backend) = 2
    /\ ai.backend[1] = <<"summarize", "ok">>
    /\ ai.backend[2][2] # "ok"
    => /\ summary_result = "summarize"
       /\ key_points = None
       /\ ai.success = ""
       /\ ai.rendered # << >>

\* C18: in summarize mode with key points requested, when summarize has
\* succeeded and the key-points call has failed, the summary is stored and what
\* process_with_ai shows differs from what it shows when the summarize call
\* itself fails with the same backend error.
C18_PartialSuccessSurfaced ==
    /\ pc = "view_finally"
    /\ Len(ai.backend) = 2
    /\ ai.backend[1] = <<"summarize", "ok">>
    /\ ai.backend[2][2] # "ok"
    => LET failed == process_with_ai(transcript_result, settings, SessionAtStart, TRUE,
                                     ai.backend[2][2], "ok")
       IN /\ summary_result = "summarize"
          /\ <<ai.rendered, ai.success>> # <<failed.rendered, failed.success>>

\* the names of the requests sent to the backend, in order
RequestNames == [i \in DOMAIN ai.backend |-> ai.backend[i][1]]

\* C19: after process_with_ai, in summarize mode the requests sent are none,
\* summarize, or summarize then key points, the latter only if key points
\* were requested and the summarize request was answered; in refine mode none
\* or refine; and if the mandatory call failed or was never made, at most
\* one request was sent and no summary, key points or refined message is
\* stored.
C19_MandatoryCallFirst ==
    pc = "view_finally" /\ ai # NoAi =>
        /\ settings.processing_mode = "summarize" =>
              /\ RequestNames \in {<< >>, <<"summarize">>, <<"summarize", "analyze">>}
              /\ Len(ai.backend) = 2 =>
                    settings.generate_key_points /\ ai.backend[1][2] = "ok"
        /\ settings.processing_mode # "summarize" =>
              RequestNames \in {<< >>, <<"refine">>}
        /\ ai.backend = << >> \/ ai.backend[1][2] # "ok" =>
              /\ Len(ai.backend) <= 1
              /\ ai.error # NoAiExc
              /\ summary_result = None
              /\ key_points = None
              /\ refined_message = None

\* summarize was sent and failed with key points requested: one request, nothing
\* stored
C19_Witness ==
    /\ pc = "view_finally"
    /\ settings.processing_mode = "summarize"
    /\ settings.generate_key_points
    /\ ai.backend = << <<"summarize", "APIError">> >>
    /\ summary_result = None
    /\ key_points = None

\* C20: when process_with_ai has failed, at the construction of the backend
\* or at any backend call, the stored transcript is the text the transcription
\* step of this run returned, as it was stored before process_with_ai.
C20_TranscriptKeptOnAiFailure ==
    pc = "view_finally" /\ ai.error # NoAiExc =>
        /\ transcript_result = result.text
        /\ transcript_result = primary.text
        /\ transcript_result.run = run

\* the key-points call failed after a summary, and the transcript of the
\* second run is still stored
C20_Witness ==
    /\ pc = "view_finally"
    /\ run = 2
    /\ ai.error.type = "Exception"
    /\ Len(ai.backend) = 2
    /\ transcript_result.chars = <<"h", "i">>
    /\ transcript_result = result.text

\* C21: refine_message with a tone outside professional, friendly, formal,
\* casual hands the backend the same system prompt, user message, max_tokens
\* and temperature as refine_message with tone professional, for the same text
\* and recipient context.
C21_UnknownToneIsProfessional ==
    ret.fn = "refine_request"
    /\ ret.tone \notin {"professional", "friendly", "formal", "casual"}
        => ret.request = refine_request(ret.text, "professional", ret.context)

\* the request for tone "angry" with a recipient carries the professional
\* description
C21_Witness ==
    /\ ret.fn = "refine_request"
    /\ ret.tone = "angry"
    /\ ret.context = "my boss"
    /\ ret.request[1].system_prompt[2]
          = "professional, clear, and concise while maintaining warmth"

\* a response line with whitespace and leading enumeration markers removed
CleanLine(line) ==
    Strip(LStripChars(Strip(line), {"0", "1", "2", "3", "4", "5", "6", "7", "8", "9",
                                    ".", "-", ")", " "}))

\* the cleaned lines that are not blank, do not start with '#' and have at
\* least 10 characters, in order
RECURSIVE ExpectedKeyPoints(_)
ExpectedKeyPoints(lines) ==
    IF lines = << >> THEN << >>
    ELSE LET p == CleanLine(Head(lines)) IN
         (IF p # << >> /\ Head(p) # "#" /\ Len(p) >= 10 THEN <<p>> ELSE << >>)
         \o ExpectedKeyPoints(Tail(lines))

\* C22: generate_key_points keeps a response line exactly when, stripped of
\* whitespace and leading enumeration markers, it is not blank, does not start
\* with a heading marker and has at least 10 characters, in the original order.
C22_KeyPointLinesKept ==
    ret.fn = "parse_key_points" => ret.points = ExpectedKeyPoints(ret.response)

\* the value of a string of digits
RECURSIVE NumberOf(_)
NumberOf(s) ==
    IF s = << >> THEN 0
    ELSE 10 * NumberOf(SubSeq(s, 1, Len(s) - 1))
         + (CHOOSE d \in 0..9 :
               <<"0", "1", "2", "3", "4", "5", "6", "7", "8", "9">>[d + 1] = s[Len(s)])

IsDigitString(s) ==
    s # << >> /\ \A i \in DOMAIN s :
                    s[i] \in {"0", "1", "2", "3", "4", "5", "6", "7", "8", "9"}

\* the colon-separated parts of a string when there are at most three and each
\* is a string of digits; << >> otherwise
DigitParts(s) ==
    LET colons == {i \in DOMAIN s : s[i] = ":"}
        cut == [k \in 0..(Cardinality(colons) + 1) |->
                   IF k = 0 THEN 0
                   ELSE IF k = Cardinality(colons) + 1 THEN Len(s) + 1
                   ELSE CHOOSE i \in colons : Cardinality({j \in colons : j < i}) = k - 1]
        parts == [k \in 1..(Cardinality(colons) + 1) |->
                     SubSeq(s, cut[k - 1] + 1, cut[k] - 1)]
    IN  IF Len(parts) <= 3 /\ \A k \in DOMAIN parts : IsDigitString(parts[k])
        THEN parts ELSE << >>

\* C23: parse_time_string returns S for a digit string "S", 60*M+S for "M:S"
\* and 3600*H+60*M+S for "H:M:S", with M, S, H strings of digits (whitespace
\* around the whole string put aside), and None for every other string.
C23_ParseTimeString ==
    ret.fn = "parse_time_string" =>
        LET p == DigitParts(Strip(ret.time_str))
            n(k) == NumberOf(p[k])
        IN  CASE Len(p) = 1 -> ret.seconds = [none |-> FALSE, value |-> n(1)]
              [] Len(p) = 2 -> ret.seconds = [none |-> FALSE, value |-> 60 * n(1) + n(2)]
              [] Len(p) = 3 ->
                    ret.seconds = [none |-> FALSE,
                                   value |-> 3600 * n(1) + 60 * n(2) + n(3)]
              [] OTHER -> ret.seconds.none

\* the documented cases: "90" and "1:30" give 90, "1:01:30" gives 3690, "abc"
\* gives None
DocumentedTimes ==
    /\ parse_time_string(<<"9", "0">>) = [none |-> FALSE, value |-> 90]
    /\ parse_time_string(<<"1", ":", "3", "0">>) = [none |-> FALSE, value |-> 90]
    /\ parse_time_string(<<"1", ":", "0", "1", ":", "3", "0">>)
          = [none |-> FALSE, value |-> 3690]
    /\ parse_time_string(<<"a", "b", "c">>).none

\* the message of the error in flight has this part
Names(part) == \E i \in DOMAIN exc : exc[i] = part

\* C24: when get_transcript has failed, its error names the failing stage: after
\* a failed download the message has "Failed to download YouTube audio" and not
\* "Error transcribing audio file"; after a download that succeeded and an
\* engine call that failed it has "Error transcribing audio file" and not
\* "Failed to download YouTube audio".
C24_ErrorNamesStage ==
    src = "youtube" /\ pc = "view_except" /\ primary.kind = "error" =>
        /\ exc # NoExc
        /\ primary.stage = "download" =>
              /\ calls.download = 1
              /\ Names("Failed to download YouTube audio")
              /\ ~Names("Error transcribing audio file")
        /\ primary.stage = "transcribe" =>
              /\ calls.download = 1
              /\ calls.transcribe = 1
              /\ Names("Error transcribing audio file")
              /\ ~Names("Failed to download YouTube audio")

\* get_transcript has failed at the download with the message of that stage
C24_Witness ==
    /\ src = "youtube"
    /\ pc = "view_except"
    /\ primary.stage = "download"
    /\ exc = <<"Error processing video", "Whisper fallback failed for video",
               "Failed to download YouTube audio", "yt_dlp">>

\* C25: for a remote clip, an uploaded file and a recording, when the settings
\* carry a language the engine has run with that language, and it has run with
\* auto-detection only when the settings carry none.
C25_LanguageHintUsed ==
    src \in {"youtube", "upload", "recording"} /\ calls.transcribe = 1
        => calls.language = IF loc.hint # "" THEN loc.hint ELSE "auto"

\* the engine runs with the language of the settings on the upload and
\* recording paths, and on the remote-clip path for a language other than "en"
HintUsedButEnglishClip ==
    calls.transcribe = 1 /\ ~(src = "youtube" /\ loc.hint = "en")
        => calls.language = IF loc.hint # "" THEN loc.hint ELSE "auto"

\* C26: for a remote clip, the download is restricted to a time window
\* whenever a start or end offset was supplied, and the whole clip is
\* downloaded only when neither was; an offset that cannot be parsed does not
\* lead to the download of the whole clip.
C26_WindowWheneverOffsetGiven ==
    src = "youtube" /\ calls.download = 1
        => (calls.download_ranges # << >>
              <=> loc.start_time # << >> \/ loc.end_time # << >>)

\* the characters of the given texts, each but the first text after one space
RECURSIVE SpacedTexts(_)
SpacedTexts(entries) ==
    IF entries = << >> THEN << >>
    ELSE IF Len(entries) = 1 THEN entries[1].text
    ELSE SpacedTexts(SubSeq(entries, 1, Len(entries) - 1))
            \o <<" ">> \o entries[Len(entries)].text

\* C27: a result the legacy get_transcript makes of captions (source
\* 'youtube_api') has as text the texts of the captions in order with one
\* space between two of them, and as duration the start of the last caption
\* plus its duration, 0 when there is no caption.
C27_CaptionsTextAndDuration ==
    ret.fn = "get_transcript" /\ ret.captions.source = "youtube_api"
        => LET data == ret.transcript_data
               n == Len(data)
           IN /\ ret.captions.text = SpacedTexts(data)
              /\ ret.captions.segments = data
              /\ ret.captions.duration =
                    IF n = 0 THEN 0
                    ELSE data[n].start
                           + (IF data[n].duration.none THEN 0 ELSE data[n].duration.value)

C27_Witness ==
    /\ ret.fn = "get_transcript"
    /\ ret.captions.source = "youtube_api"
    /\ Len(ret.transcript_data) = 3
    /\ ret.captions.duration > 0
    /\ Len(ret.captions.text) > 3

\* C28: the processing flag of the session is set only while
\* process_youtube_url, process_audio_file or process_audio_recording is
\* executing: whenever no such call is in progress the flag is false, whether
\* the last run transcribed, failed to transcribe or failed in post-processing.
C28_ProcessingOnlyDuringRun == processing => pc # "idle"

\* a run has ended without a transcript (its transcription failed) and the
\* flag is false
C28_Witness ==
    /\ pc = "idle"
    /\ run > 0
    /\ transcript_result = NoText
    /\ ~processing

\* C29: when whisper.load_model fails inside load_model, the cache has no
\* entry for the instance's key, the instance's model is still unset, and a
\* following load_model on that instance invokes whisper.load_model again,
\* whether that load then succeeds or fails.
C29_FailedLoadLeavesNothing ==
    primary.kind = "error" /\ primary.stage = "load"
        => /\ audio_service.model = NoModel
           /\ CacheKey(audio_service) \notin DOMAIN _model_cache
           /\ _model_cache = cacheBefore
           /\ \A ok \in BOOLEAN :
                 load_model(audio_service, _model_cache, ok, nextHandle).invoked

\* a load has failed inside transcribe_file while another key is cached
C29_Witness ==
    /\ primary.kind = "error"
    /\ primary.stage = "load"
    /\ calls.whisper_load = 1
    /\ _model_cache # EmptyCache

\* C30: in every run, a text-generation service is constructed or asked only
\* after the transcription of that run has succeeded and only with the
\* provider 'local' or a non-empty credential; with the provider 'openai' and
\* no credential nothing of the post-processing happens and the transcript
\* stays stored.
C30_BackendOnlyAfterTranscript ==
    /\ ai # NoAi
        => /\ primary.kind = "result"
           /\ transcript_result = result.text
           /\ settings.ai_provider = "local" \/ settings.api_key # ""
    /\ pc = "view_finally" /\ settings.ai_provider = "openai" /\ settings.api_key = ""
        => /\ ai = NoAi
           /\ transcript_result = result.text
           /\ summary_result = None
           /\ key_points = None
           /\ refined_message = None

\* the backend has been asked with the provider 'openai' and a credential
C30_Witness ==
    /\ ai.backend # << >>
    /\ primary.kind = "result"
    /\ settings.ai_provider = "openai"
    /\ settings.api_key # ""

====
